---- MODULE Spec2Model ----
(***************************************************************************)
(* Playback controller of RightPanel.vue (simulated-key playback with a    *)
(* cancellable 3-tick countdown, preview / audio preview, song switching)  *)
(* as driven by its buttons and by the global shortcuts of App.vue.        *)
(*                                                                         *)
(* JavaScript is single-threaded: a handler runs from its call to its      *)
(* first pending await without interleaving, and the promise reactions it  *)
(* queues (microtasks) run before any timer, click or backend reply.  One  *)
(* action of this module is one such run.  Times are in tenths of a        *)
(* second; interval ticks are one second apart.                            *)
(***************************************************************************)
EXTENDS Integers, Sequences, FiniteSets, TLC

\* ------------------------------------------------------------------ bounds
MaxStarts == 2      \* start requests that reach the countdown, per behaviour
MaxModeStarts == 1  \* the same, in the specification with previews and song changes
MaxStops  == 2      \* stop_playback calls awaited at the same time
MaxMidi   == 1      \* startMidiPlayback calls suspended at the same time
MaxWatch  == 1      \* song-change watchers suspended at the same time
MaxToggled == 1     \* tracks whose check box is clicked while every mode is in play
MaxFiles  == 4      \* .mid files of a folder
MaxSaves  == 1      \* saves of the settings dialog in progress at the same time
MaxInitCalls == 3   \* calls of settingsManager.initialize() (App, LeftPanel, KeySettings)

\* ------------------------------------------------------- program constants
DefaultMinNote == 48
DefaultMaxNote == 83
CountdownStart == 3
DefaultDuration == 1          \* event.duration || 0.1, in tenths of a second

\* ---------------------------------------------------------------- helpers
Max(S) == CHOOSE x \in S : \A y \in S : y <= x

\* Math.ceil of a time given in tenths of a second, in whole seconds.
Ceil(x) == (x + 9) \div 10

\* ---------------------------------------------------- songs and bindings
Songs == {1, 2}
NoFile == 0

Ev(tr, ty, n, t, d, e, v) ==
  [track |-> tr, type |-> ty, note |-> n, time |-> t, duration |-> d,
   end |-> e, velocity |-> v]

\* What parse_midi returns for each song of the folder.
ParseEvents(f) ==
  IF f = 1
  THEN << Ev(0, "note_on", 60, 0, 12, 12, 100),
          Ev(0, "note_on", 62, 3, 0, 0, 100),
          Ev(0, "note_off", 60, 12, 0, 0, 0),
          Ev(1, "note_on", 61, 5, 2, 7, 100),
          Ev(1, "note_on", 90, 9, 5, 14, 100) >>
  ELSE << Ev(0, "note_on", 64, 0, 10, 10, 100) >>

\* ------------------------------------------------------ track analysis
Abs(x) == IF x < 0 THEN -x ELSE x

Min(S) == CHOOSE x \in S : \A y \in S : x <= y

\* `v || d` on numbers: 0 is replaced by the default.
orDefault(v, d) == IF v = 0 THEN d ELSE v

\* null, and a value that is not null (a field that may be null holds one
\* of the two).
Null == << >>
Some(v) == << v >>

\* The sort with its comparison reversed: descending by score.
sortByScore_Descending(s) ==
  LET insert(acc, x) ==
        LET n == Cardinality({j \in 1..Len(acc) : acc[j][3] >= x[3]})
        IN  SubSeq(acc, 1, n) \o << x >> \o SubSeq(acc, n + 1, Len(acc))
      RECURSIVE insertFrom(_, _)
      insertFrom(acc, k) ==
        IF k > Len(s) THEN acc ELSE insertFrom(insert(acc, s[k]), k + 1)
  IN  insertFrom(<< >>, 1)

\* Array.prototype.sort((a, b) => a[2] - b[2]): ascending by score, equal
\* scores keep their order (the sort is stable).  The entries are inserted
\* one by one, each after the entries of lower or equal score.
sortByScore(s) ==
  LET insert(acc, x) ==
        LET n == Cardinality({j \in 1..Len(acc) : acc[j][3] <= x[3]})
        IN  SubSeq(acc, 1, n) \o << x >> \o SubSeq(acc, n + 1, Len(acc))
      RECURSIVE insertFrom(_, _)
      insertFrom(acc, k) ==
        IF k > Len(s) THEN acc ELSE insertFrom(insert(acc, s[k]), k + 1)
  IN  insertFrom(<< >>, 1)

\* The loop running over three octaves each way.
OctaveShifts_Wide == << -3, -2, -1, 0, 1, 2, 3 >>

\* The octave shifts tried, in the order of the loop.
OctaveShifts == << -2, -1, 0, 1, 2 >>

\* A number typed into a transpose or octave field need not be whole
\* (`v-model.number`).  Numbers with a fractional part are held as multiples
\* of 1/unit: n stands for n/unit, and 12 is held as 12 * unit.
\* The score of a setting, doubled so that the 0.5 penalty is a whole number.
scoreAt(unit, final_transpose, final_octave) ==
  2 * (Abs(final_transpose) + Abs(final_octave))
    + (IF 5 * unit <= Abs(final_transpose) /\ Abs(final_transpose) <= 7 * unit
       THEN unit ELSE 0)

\* The score of a setting of whole numbers.
scoreOf(final_transpose, final_octave) ==
  scoreAt(1, final_transpose, final_octave)

\* The optimizer returning the last of the candidates of lowest score.
optimizeTransposeSuggestionAt_LastOfLowest(unit, diff, current_transpose, current_octave) ==
  LET candidate(octave_shift) ==
        << current_transpose + diff - octave_shift * 12 * unit,
           current_octave + octave_shift * unit,
           scoreAt(unit, current_transpose + diff - octave_shift * 12 * unit,
                   current_octave + octave_shift * unit) >>
      sorted == sortByScore([k \in 1..Len(OctaveShifts) |->
                               candidate(OctaveShifts[k])])
      n == Cardinality({k \in 1..Len(sorted) : sorted[k][3] = sorted[1][3]})
  IN  << sorted[n][1], sorted[n][2] >>

\* Returns << transpose, octave >>, or Null when there is no candidate.
optimizeTransposeSuggestionAt(unit, diff, current_transpose, current_octave) ==
  LET candidate(octave_shift) ==
        LET total_transpose_needed == diff - octave_shift * 12 * unit
            final_transpose == current_transpose + total_transpose_needed
            final_octave == current_octave + octave_shift * unit
        IN  << final_transpose, final_octave,
               scoreAt(unit, final_transpose, final_octave) >>
      \* the loop: one push per octave shift
      RECURSIVE pushFrom(_, _)
      pushFrom(suggestions, k) ==
        IF k > Len(OctaveShifts) THEN suggestions
        ELSE pushFrom(Append(suggestions, candidate(OctaveShifts[k])), k + 1)
      first(sorted) ==
        IF Len(sorted) > 0 THEN << sorted[1][1], sorted[1][2] >> ELSE Null
  IN  first(sortByScore(pushFrom(<< >>, 1)))

\* The optimizer with the octave shift not taken off the transpose.
optimizeTransposeSuggestion_NoOctaveCompensation(diff, current_transpose, current_octave) ==
  LET candidate(octave_shift) ==
        << current_transpose + diff, current_octave + octave_shift,
           scoreOf(current_transpose + diff, current_octave + octave_shift) >>
      sorted == sortByScore([k \in 1..Len(OctaveShifts) |->
                               candidate(OctaveShifts[k])])
  IN  << sorted[1][1], sorted[1][2] >>

\* The optimizer on whole numbers.
optimizeTransposeSuggestion(diff, current_transpose, current_octave) ==
  optimizeTransposeSuggestionAt(1, diff, current_transpose, current_octave)

\* adjustedNotes.filter(n => n > limit_max).length, counting each note once.
upperOverLimit_DistinctNotes(adjustedNotes, limit_max) ==
  Cardinality({adjustedNotes[k] :
                 k \in {j \in 1..Len(adjustedNotes) :
                          adjustedNotes[j] > limit_max}})

\* adjustedNotes.filter(n => n > limit_max).length
upperOverLimit(adjustedNotes, limit_max) ==
  Len(SelectSeq(adjustedNotes, LAMBDA n : n > limit_max))

\* adjustedNotes.filter(n => n < limit_min).length
lowerOverLimit(adjustedNotes, limit_min) ==
  Len(SelectSeq(adjustedNotes, LAMBDA n : n < limit_min))

\* The flag of the highest note without its second disjunct.
isMaxOverLimit_AboveOnly(max_note, limit_min, limit_max) ==
  max_note > limit_max

\* max_note > limit_max || max_note < limit_min
isMaxOverLimit(max_note, limit_min, limit_max) ==
  max_note > limit_max \/ max_note < limit_min

\* min_note < limit_min || min_note > limit_max
isMinOverLimit(min_note, limit_min, limit_max) ==
  min_note < limit_min \/ min_note > limit_max

\* A suggestion computed whether or not the flag is set.
suggestionFor_Always(over_limit, diff, transpose, octave) ==
  optimizeTransposeSuggestion(diff, transpose, octave)

\* if (is_..._over_limit) { suggestion = optimizeTransposeSuggestion(...) }
suggestionFor(over_limit, diff, transpose, octave) ==
  IF over_limit THEN optimizeTransposeSuggestion(diff, transpose, octave)
  ELSE Null

\* The analysis reanalyzeTrack stores for the notes of a track (one entry
\* per note-on event) under a transpose, an octave and a window.
analysisOf(notes, transpose, octave, limit_min, limit_max) ==
  LET adjustment == transpose + octave * 12
      stored(adjustedNotes, max_note, min_note, is_max_over_limit,
             is_min_over_limit, sMax, sMin) ==
        [max_note |-> max_note, min_note |-> min_note,
         upper_over_limit |-> upperOverLimit(adjustedNotes, limit_max),
         lower_over_limit |-> lowerOverLimit(adjustedNotes, limit_min),
         is_max_over_limit |-> is_max_over_limit,
         is_min_over_limit |-> is_min_over_limit,
         suggested_max_transpose |-> IF sMax # Null THEN Some(sMax[1]) ELSE Null,
         suggested_max_octave |-> IF sMax # Null THEN Some(sMax[2]) ELSE Null,
         suggested_min_transpose |-> IF sMin # Null THEN Some(sMin[1]) ELSE Null,
         suggested_min_octave |-> IF sMin # Null THEN Some(sMin[2]) ELSE Null]
      suggest(adjustedNotes, max_note, min_note, is_max_over_limit,
              is_min_over_limit) ==
        stored(adjustedNotes, max_note, min_note, is_max_over_limit,
               is_min_over_limit,
               suggestionFor(is_max_over_limit, limit_max - max_note,
                             transpose, octave),
               suggestionFor(is_min_over_limit, limit_min - min_note,
                             transpose, octave))
      flag(adjustedNotes, max_note, min_note) ==
        suggest(adjustedNotes, max_note, min_note,
                isMaxOverLimit(max_note, limit_min, limit_max),
                isMinOverLimit(min_note, limit_min, limit_max))
      extremes(adjustedNotes) ==
        flag(adjustedNotes,
             Max({adjustedNotes[k] : k \in 1..Len(notes)}),
             Min({adjustedNotes[k] : k \in 1..Len(notes)}))
  IN  extremes([k \in 1..Len(notes) |-> notes[k] + adjustment])

\* The notes of the note-on events of a track, in the order of the list.
noteOnNotes(events, id) ==
  LET trackEvents ==
        SelectSeq(events, LAMBDA e : e.track = id /\ e.type = "note_on")
  IN  [k \in 1..Len(trackEvents) |-> trackEvents[k].note]

\* The analysis parse_midi returns for a track: the analysis of its notes
\* as parsed (no transpose, no octave) against the window it was given.
EmptyAnalysis ==
  [max_note |-> 0, min_note |-> 0, upper_over_limit |-> 0,
   lower_over_limit |-> 0, is_max_over_limit |-> FALSE,
   is_min_over_limit |-> FALSE,
   suggested_max_transpose |-> Null, suggested_max_octave |-> Null,
   suggested_min_transpose |-> Null, suggested_min_octave |-> Null]

parsedAnalysis(events, id, minNote, maxNote) ==
  IF Len(noteOnNotes(events, id)) = 0 THEN EmptyAnalysis
  ELSE analysisOf(noteOnNotes(events, id), 0, 0, minNote, maxNote)

\* result.tracks.map(...): the track list built from what parse_midi
\* returned for the tracks `ids`.
loadTracks(events, ids, minNote, maxNote) ==
  [k \in 1..Len(ids) |->
     [id |-> ids[k], selected |-> TRUE, transpose |-> 0, octave |-> 0,
      analysis |-> parsedAnalysis(events, ids[k], minNote, maxNote)]]

\* The track ids parse_midi reports for each song of the folder.
TrackIds(f) == IF f = 1 THEN << 0, 1 >> ELSE << 0 >>

ParseTracks(f, minNote, maxNote) ==
  loadTracks(ParseEvents(f), TrackIds(f), minNote, maxNote)

\* The note -> key table; a note outside its domain has no binding.
NOTE_TO_KEY == (60 :> "a") @@ (62 :> "s") @@ (64 :> "d")

\* ------------------------------------------------------------------ state
VARIABLES
  selectedMidiFile,            \* props.selectedMidiFile (NoFile = null)
  tracks, midiEvents, originalMidiEvents,
  allTracksSelected,           \* the v-model of the select-all checkbox
  keySettings,                 \* settingsManager.getSettings().keySettings
  reanalysisTimers,            \* positions of the tracks with a pending setTimeout(reanalyzeTrack)
  currentMinNote, currentMaxNote,
  isPlaying, playbackRemainingTime, playbackTimer,
  countdownSeconds, countdownInterval, cancelCountdownFunc,
  isPlayButtonEnabled, isStopButtonEnabled,
  isPreviewButtonEnabled, isMidiPlaybackButtonEnabled,
  isPlayingMidi, isPreviewing, midiRemainingTime, midiPlaybackTimer, toneSynth,
  scheduledNotes,              \* the events whose notes toneSynth has been given to play
  starts,                      \* the startPlayback calls that reached the countdown
  nStarts,
  stopsInFlight,               \* stopPlayback calls awaiting invoke('stop_playback')
  midis,                       \* suspended startMidiPlayback calls
  leakedMidiTimers,            \* live startMidiPlayback intervals no handle refers to
  watches,                     \* suspended runs of the selectedMidiFile watcher
  saves,                       \* saves of the settings dialog and their handleSettingsSaved runs
  settingsInit,                \* SettingsManager: isInitialized, initPromise, doInitialize runs, initialize() calls
  songList,                    \* LeftPanel: allMidiFiles, midiFiles, selectedFile
  optimizerCall,               \* a call of optimizeTransposeSuggestion: its arguments and what it returned
  lastError,                   \* what the last handler run reported with error()
  stopDone                     \* a stopPlayback call completed and no start request followed

vars == << selectedMidiFile, tracks, midiEvents, originalMidiEvents,
           allTracksSelected, keySettings, reanalysisTimers, currentMinNote, currentMaxNote,
           isPlaying, playbackRemainingTime, playbackTimer,
           countdownSeconds, countdownInterval, cancelCountdownFunc,
           isPlayButtonEnabled, isStopButtonEnabled,
           isPreviewButtonEnabled, isMidiPlaybackButtonEnabled,
           isPlayingMidi, isPreviewing, midiRemainingTime, midiPlaybackTimer,
           toneSynth, scheduledNotes, starts, nStarts, stopsInFlight, midis, leakedMidiTimers,
           watches, saves, settingsInit, songList, optimizerCall, lastError,
           stopDone >>

StartIds == 1..MaxStarts
MidiIds  == 1..MaxMidi
WatchIds == 1..MaxWatch
SaveIds  == 1..MaxSaves
InitCallIds == 1..MaxInitCalls

\* A startPlayback call: its position, the locals of its closure (validEvents,
\* keyEvents), the two intervals it created, and what was observed of it.
NoStart ==
  [pc |-> "none", validEvents |-> << >>, keyEvents |-> << >>, cdLive |-> FALSE, tkLive |-> FALSE,
   ticks |-> 0, calls |-> 0, sent |-> << >>, stops |-> 0, stopped |-> FALSE,
   remaining |-> 0]

NoMidi == [pc |-> "none", preview |-> FALSE]

NoWatch ==
  [pc |-> "none", newFile |-> NoFile, wasKey |-> FALSE, wasMidi |-> FALSE,
   restarted |-> FALSE]

\* A save of the settings dialog: the key settings it found and the ones it
\* stored, and the arguments of the parse_midi call of handleSettingsSaved.
NoSave ==
  [pc |-> "none", old |-> [minNote |-> 0, maxNote |-> 0],
   local |-> [minNote |-> 0, maxNote |-> 0], modeChanged |-> FALSE,
   filePath |-> NoFile, minNote |-> 0, maxNote |-> 0]

\* The settings manager before any initialize() call.  initPromise is the
\* number of the doInitialize run whose promise it holds (0: null); loads
\* counts the runs of loadFromFile; loadPc[n] is the position of the n-th
\* doInitialize run; calls[k] is the position of the k-th initialize() call
\* and the doInitialize run whose promise it awaits.
NoSettingsInit ==
  [isInitialized |-> FALSE, initPromise |-> 0, runs |-> 0, loads |-> 0,
   loadPc |-> [n \in InitCallIds |-> "none"],
   fromFile |-> FALSE,
   calls |-> [k \in InitCallIds |-> [pc |-> "none", promise |-> 0]]]

\* No call of optimizeTransposeSuggestion is being looked at.
NoCall ==
  [pc |-> "none", diff |-> 0, current_transpose |-> 0, current_octave |-> 0,
   result |-> Null]

\* ------------------------------------------------------ the song list
FileNames == 1..MaxFiles

\* The names of the set, in ascending order (readDir(...).sort(), and a
\* filter of that list).
RECURSIVE sortedList(_)
sortedList(S) ==
  IF S = {} THEN << >> ELSE << Min(S) >> \o sortedList(S \ {Min(S)})

\* midiFiles.indexOf(file), counted from 1; 0 when the file is not there.
indexOf(files, file) ==
  IF \E k \in 1..Len(files) : files[k] = file
  THEN Min({k \in 1..Len(files) : files[k] = file})
  ELSE 0

\* LeftPanel after setup: the list holds the test song (name 1), no song is
\* selected.
InitialSongList ==
  [allMidiFiles |-> << 1 >>, midiFiles |-> << 1 >>, selectedFile |-> NoFile]

\* songSelected(file).
songSelected(l, file) == [l EXCEPT !.selectedFile = file]

\* selectPrevSong that wraps from the first song only and takes the first
\* song when none is selected.
selectPrevSong_NoSelectionFirst(l) ==
  LET currentIndex == indexOf(l.midiFiles, l.selectedFile)
      prevIndex == IF currentIndex = 1 THEN Len(l.midiFiles)
                   ELSE IF currentIndex = 0 THEN 1
                   ELSE currentIndex - 1
  IN  IF Len(l.midiFiles) = 0 THEN l
      ELSE songSelected(l, l.midiFiles[prevIndex])

\* selectPrevSong.
selectPrevSong(l) ==
  LET currentIndex == indexOf(l.midiFiles, l.selectedFile)
      prevIndex == IF currentIndex <= 1 THEN Len(l.midiFiles)
                   ELSE currentIndex - 1
  IN  IF Len(l.midiFiles) = 0 THEN l
      ELSE songSelected(l, l.midiFiles[prevIndex])

\* selectNextSong.
selectNextSong(l) ==
  LET currentIndex == indexOf(l.midiFiles, l.selectedFile)
      nextIndex == IF currentIndex >= Len(l.midiFiles) \/ currentIndex = 0
                   THEN 1
                   ELSE currentIndex + 1
  IN  IF Len(l.midiFiles) = 0 THEN l
      ELSE songSelected(l, l.midiFiles[nextIndex])

\* loadMidiFiles after readDir returned the .mid files `names`.
loadMidiFiles(l, names) ==
  [l EXCEPT !.allMidiFiles = sortedList(names),
            !.midiFiles = sortedList(names)]

\* loadMidiFiles after readDir failed.
loadMidiFilesFailed(l) ==
  [l EXCEPT !.allMidiFiles = << >>, !.midiFiles = << >>]

\* filterSongs for a query that the names `matching` contain.
filterSongs(l, matching) ==
  [l EXCEPT !.midiFiles =
     SelectSeq(l.allMidiFiles, LAMBDA file : file \in matching)]

\* The state as one record, so that a handler is the composition of the
\* statements it runs.
Cur ==
  [selectedMidiFile |-> selectedMidiFile, tracks |-> tracks,
   midiEvents |-> midiEvents, originalMidiEvents |-> originalMidiEvents,
   allTracksSelected |-> allTracksSelected,
   keySettings |-> keySettings, reanalysisTimers |-> reanalysisTimers,
   currentMinNote |-> currentMinNote, currentMaxNote |-> currentMaxNote,
   isPlaying |-> isPlaying, playbackRemainingTime |-> playbackRemainingTime,
   playbackTimer |-> playbackTimer, countdownSeconds |-> countdownSeconds,
   countdownInterval |-> countdownInterval,
   cancelCountdownFunc |-> cancelCountdownFunc,
   isPlayButtonEnabled |-> isPlayButtonEnabled,
   isStopButtonEnabled |-> isStopButtonEnabled,
   isPreviewButtonEnabled |-> isPreviewButtonEnabled,
   isMidiPlaybackButtonEnabled |-> isMidiPlaybackButtonEnabled,
   isPlayingMidi |-> isPlayingMidi, isPreviewing |-> isPreviewing,
   midiRemainingTime |-> midiRemainingTime,
   midiPlaybackTimer |-> midiPlaybackTimer, toneSynth |-> toneSynth,
   scheduledNotes |-> scheduledNotes,
   starts |-> starts, nStarts |-> nStarts, stopsInFlight |-> stopsInFlight,
   midis |-> midis, leakedMidiTimers |-> leakedMidiTimers, watches |-> watches,
   saves |-> saves, settingsInit |-> settingsInit,
   songList |-> songList,
   optimizerCall |-> optimizerCall,
   lastError |-> "none", stopDone |-> stopDone]

Commit(c) ==
  /\ c.stopsInFlight <= MaxStops
  /\ c.leakedMidiTimers <= MaxMidi
  /\ selectedMidiFile' = c.selectedMidiFile
  /\ tracks' = c.tracks
  /\ midiEvents' = c.midiEvents
  /\ originalMidiEvents' = c.originalMidiEvents
  /\ allTracksSelected' = c.allTracksSelected
  /\ keySettings' = c.keySettings
  /\ reanalysisTimers' = c.reanalysisTimers
  /\ currentMinNote' = c.currentMinNote
  /\ currentMaxNote' = c.currentMaxNote
  /\ isPlaying' = c.isPlaying
  /\ playbackRemainingTime' = c.playbackRemainingTime
  /\ playbackTimer' = c.playbackTimer
  /\ countdownSeconds' = c.countdownSeconds
  /\ countdownInterval' = c.countdownInterval
  /\ cancelCountdownFunc' = c.cancelCountdownFunc
  /\ isPlayButtonEnabled' = c.isPlayButtonEnabled
  /\ isStopButtonEnabled' = c.isStopButtonEnabled
  /\ isPreviewButtonEnabled' = c.isPreviewButtonEnabled
  /\ isMidiPlaybackButtonEnabled' = c.isMidiPlaybackButtonEnabled
  /\ isPlayingMidi' = c.isPlayingMidi
  /\ isPreviewing' = c.isPreviewing
  /\ midiRemainingTime' = c.midiRemainingTime
  /\ midiPlaybackTimer' = c.midiPlaybackTimer
  /\ toneSynth' = c.toneSynth
  /\ scheduledNotes' = c.scheduledNotes
  /\ starts' = c.starts
  /\ nStarts' = c.nStarts
  /\ stopsInFlight' = c.stopsInFlight
  /\ midis' = c.midis
  /\ leakedMidiTimers' = c.leakedMidiTimers
  /\ watches' = c.watches
  /\ saves' = c.saves
  /\ settingsInit' = c.settingsInit
  /\ songList' = c.songList
  /\ optimizerCall' = c.optimizerCall
  /\ lastError' = c.lastError
  /\ stopDone' = c.stopDone

\* The state after construction of the components.
InitialState ==
  [selectedMidiFile |-> NoFile, tracks |-> << >>,
   midiEvents |-> << >>, originalMidiEvents |-> << >>,
   allTracksSelected |-> TRUE,
   \* the settings hold no keySettings until the dialog saves some (0: none)
   keySettings |-> [minNote |-> 0, maxNote |-> 0],
   reanalysisTimers |-> {},
   currentMinNote |-> DefaultMinNote, currentMaxNote |-> DefaultMaxNote,
   isPlaying |-> FALSE, playbackRemainingTime |-> 0,
   playbackTimer |-> 0, countdownSeconds |-> 0,
   countdownInterval |-> 0, cancelCountdownFunc |-> 0,
   isPlayButtonEnabled |-> FALSE, isStopButtonEnabled |-> FALSE,
   isPreviewButtonEnabled |-> FALSE, isMidiPlaybackButtonEnabled |-> FALSE,
   isPlayingMidi |-> FALSE, isPreviewing |-> FALSE,
   midiRemainingTime |-> 0, midiPlaybackTimer |-> FALSE, toneSynth |-> FALSE,
   scheduledNotes |-> << >>,
   starts |-> [i \in StartIds |-> NoStart], nStarts |-> 0, stopsInFlight |-> 0,
   midis |-> [m \in MidiIds |-> NoMidi], leakedMidiTimers |-> 0,
   watches |-> [w \in WatchIds |-> NoWatch],
   saves |-> [s \in SaveIds |-> NoSave],
   settingsInit |-> NoSettingsInit,
   songList |-> InitialSongList,
   optimizerCall |-> NoCall,
   lastError |-> "none", stopDone |-> FALSE]

\* The variables hold the state c.
Holds(c) ==
  /\ selectedMidiFile = c.selectedMidiFile
  /\ tracks = c.tracks
  /\ midiEvents = c.midiEvents
  /\ originalMidiEvents = c.originalMidiEvents
  /\ allTracksSelected = c.allTracksSelected
  /\ keySettings = c.keySettings
  /\ reanalysisTimers = c.reanalysisTimers
  /\ currentMinNote = c.currentMinNote
  /\ currentMaxNote = c.currentMaxNote
  /\ isPlaying = c.isPlaying
  /\ playbackRemainingTime = c.playbackRemainingTime
  /\ playbackTimer = c.playbackTimer
  /\ countdownSeconds = c.countdownSeconds
  /\ countdownInterval = c.countdownInterval
  /\ cancelCountdownFunc = c.cancelCountdownFunc
  /\ isPlayButtonEnabled = c.isPlayButtonEnabled
  /\ isStopButtonEnabled = c.isStopButtonEnabled
  /\ isPreviewButtonEnabled = c.isPreviewButtonEnabled
  /\ isMidiPlaybackButtonEnabled = c.isMidiPlaybackButtonEnabled
  /\ isPlayingMidi = c.isPlayingMidi
  /\ isPreviewing = c.isPreviewing
  /\ midiRemainingTime = c.midiRemainingTime
  /\ midiPlaybackTimer = c.midiPlaybackTimer
  /\ toneSynth = c.toneSynth
  /\ scheduledNotes = c.scheduledNotes
  /\ starts = c.starts
  /\ nStarts = c.nStarts
  /\ stopsInFlight = c.stopsInFlight
  /\ midis = c.midis
  /\ leakedMidiTimers = c.leakedMidiTimers
  /\ watches = c.watches
  /\ saves = c.saves
  /\ settingsInit = c.settingsInit
  /\ songList = c.songList
  /\ optimizerCall = c.optimizerCall
  /\ lastError = c.lastError
  /\ stopDone = c.stopDone

Init == Holds(InitialState)

\* ------------------------------------------------------- button states
enablePlaybackButtons(c) ==
  [c EXCEPT !.isPlayButtonEnabled = TRUE, !.isStopButtonEnabled = FALSE,
            !.isPreviewButtonEnabled = TRUE,
            !.isMidiPlaybackButtonEnabled = TRUE]

setPlayingState(c) ==
  [c EXCEPT !.isPlayButtonEnabled = TRUE, !.isStopButtonEnabled = TRUE,
            !.isPreviewButtonEnabled = FALSE,
            !.isMidiPlaybackButtonEnabled = FALSE]

setCountdownState(c) ==
  [c EXCEPT !.isPlayButtonEnabled = FALSE, !.isStopButtonEnabled = TRUE,
            !.isPreviewButtonEnabled = FALSE,
            !.isMidiPlaybackButtonEnabled = FALSE]

setPreviewState(c, previewing) ==
  [c EXCEPT !.isPlayButtonEnabled = ~previewing, !.isStopButtonEnabled = FALSE,
            !.isPreviewButtonEnabled = TRUE,
            !.isMidiPlaybackButtonEnabled = ~previewing]

setMidiPlaybackState(c, playing) ==
  [c EXCEPT !.isPlayButtonEnabled = ~playing, !.isStopButtonEnabled = FALSE,
            !.isPreviewButtonEnabled = ~playing,
            !.isMidiPlaybackButtonEnabled = TRUE]

\* ------------------------------------------------- events and the plan
\* The events of the selected tracks.
filteredMidiEvents(c) ==
  LET selectedTrackIds ==
        {c.tracks[k].id : k \in {k \in 1..Len(c.tracks) : c.tracks[k].selected}}
      keep(e) == e.track \in selectedTrackIds
  IN  SelectSeq(c.midiEvents, keep)

\* InWindow with the lower limit of the window left out.
InWindow_AboveMin(events, lo, hi) ==
  LET keep(e) == e.type = "note_on" /\ e.note > lo /\ e.note <= hi
  IN  SelectSeq(events, keep)

\* The note-on events of the list that lie inside the window.
InWindow(events, lo, hi) ==
  LET keep(e) == e.type = "note_on" /\ e.note >= lo /\ e.note <= hi
  IN  SelectSeq(events, keep)

validEventsOf(c) ==
  InWindow(filteredMidiEvents(c), c.currentMinNote, c.currentMaxNote)

\* keyEventsOf with the duration of the event passed on as it is.
keyEventsOf_NoDefaultDuration(validEvents) ==
  LET bound(e) == e.note \in DOMAIN NOTE_TO_KEY
      toKey(e) == [time |-> e.time, key |-> NOTE_TO_KEY[e.note],
                   duration |-> e.duration]
      kept == SelectSeq(validEvents, bound)
  IN  [k \in 1..Len(kept) |-> toKey(kept[k])]

\* validEvents.map(...).filter(e => e !== null)
keyEventsOf(validEvents) ==
  LET bound(e) == e.note \in DOMAIN NOTE_TO_KEY
      toKey(e) == [time |-> e.time, key |-> NOTE_TO_KEY[e.note],
                   duration |-> IF e.duration # 0 THEN e.duration
                                ELSE DefaultDuration]
      kept == SelectSeq(validEvents, bound)
  IN  [k \in 1..Len(kept) |-> toKey(kept[k])]

\* Math.max(...events.map(e => e.end || e.time))
maxEndTime(events) ==
  Max({IF events[k].end # 0 THEN events[k].end ELSE events[k].time :
         k \in 1..Len(events)})

\* ------------------------------------------------------- stopPlayback
\* clearInterval(countdownInterval); countdownInterval = null
clearCountdownInterval(c) ==
  IF c.countdownInterval # 0
  THEN [c EXCEPT !.starts[c.countdownInterval].cdLive = FALSE,
                 !.countdownInterval = 0]
  ELSE c

clearPlaybackTimer(c) ==
  IF c.playbackTimer # 0
  THEN [c EXCEPT !.starts[c.playbackTimer].tkLive = FALSE,
                 !.playbackTimer = 0]
  ELSE c

\* The closure stored in cancelCountdownFunc by call j: it rejects j's wait.
cancelCountdown(c, j) ==
  LET c1 == clearCountdownInterval(c)
  IN  [c1 EXCEPT !.countdownSeconds = 0,
                 !.starts[j].pc = IF c1.starts[j].pc = "countdown"
                                  THEN "rejected" ELSE @]

\* stopPlayback with the backend call made whatever isPlaying is.
stopInvokesBackend_Always(c) == TRUE

\* Whether stopPlayback calls the backend.
stopInvokesBackend(c) == c.isPlaying

\* stopPlayback after its await (or at once when it made no backend call).
stopPlaybackFinish(c) ==
  LET c1 == clearPlaybackTimer(c)
  IN  enablePlaybackButtons(
        [c1 EXCEPT
           !.isPlaying = FALSE,
           !.playbackRemainingTime = 0,
           !.stopDone = TRUE,
           !.starts = [i \in StartIds |->
                         IF c1.starts[i].pc = "playing"
                         THEN [c1.starts[i] EXCEPT !.pc = "ended"]
                         ELSE c1.starts[i]]])

\* Observation: a stopPlayback call is being made; the start requests that
\* are in their countdown see it.
noteStop(c) ==
  [c EXCEPT !.starts =
     [i \in StartIds |->
        IF c.starts[i].pc = "countdown"
        THEN [c.starts[i] EXCEPT
                !.stopped = @ \/ c.starts[i].ticks < CountdownStart]
        ELSE c.starts[i]]]

\* await invoke('stop_playback'): the call is made and the sessions that are
\* playing are stopped once more.
invokeStopPlayback(c) ==
  [c EXCEPT !.stopsInFlight = @ + 1,
            !.starts = [i \in StartIds |->
                          IF c.starts[i].pc = "playing"
                          THEN [c.starts[i] EXCEPT !.stops = @ + 1]
                          ELSE c.starts[i]]]

\* stopPlayback from its call to its await or its end.
stopPlaybackBody(c0) ==
  LET c  == noteStop(c0)
      c1 == IF c.cancelCountdownFunc # 0
            THEN [cancelCountdown(c, c.cancelCountdownFunc)
                    EXCEPT !.cancelCountdownFunc = 0]
            ELSE c
      c2 == IF c1.countdownInterval # 0
            THEN [clearCountdownInterval(c1) EXCEPT !.countdownSeconds = 0]
            ELSE c1
  IN  IF stopInvokesBackend(c2)
      THEN invokeStopPlayback(c2)
      ELSE stopPlaybackFinish(c2)

\* The catch block of startPlayback call j.
startPlaybackCatch(c, j, how) ==
  LET c1 == clearCountdownInterval([c EXCEPT !.countdownSeconds = 0])
  IN  stopPlaybackBody([c1 EXCEPT !.cancelCountdownFunc = 0,
                                  !.starts[j].pc = how])

\* A call of stopPlayback, and the catch block of the startPlayback call
\* whose wait it rejected, which runs as soon as the caller has returned.
stopPlayback(c) ==
  LET j  == c.cancelCountdownFunc
      c1 == stopPlaybackBody(c)
  IN  IF j # 0 /\ c1.starts[j].pc = "rejected"
      THEN startPlaybackCatch(c1, j, "cancelled")
      ELSE c1

\* ------------------------------------------------------ startPlayback
\* A start request was made: the suspended watchers see it.
noteStart(c) ==
  [c EXCEPT !.watches = [w \in WatchIds |->
                           IF c.watches[w].pc # "none"
                           THEN [c.watches[w] EXCEPT !.restarted = TRUE]
                           ELSE c.watches[w]]]

\* The part of startPlayback after the countdown wait resolved.
startPlaybackResume(c, i) ==
  IF c.cancelCountdownFunc = 0 /\ c.countdownSeconds > 0
  THEN startPlaybackCatch(c, i, "cancelled")
  ELSE setPlayingState(
         [c EXCEPT !.cancelCountdownFunc = 0,
                   !.starts[i].pc = "invoking",
                   !.starts[i].calls = @ + 1,
                   !.starts[i].sent = c.starts[i].keyEvents])

\* startPlayback with the countdown state set before the binding check.
startPlayback_CountdownBeforeBindingCheck(c) ==
  LET validEvents == validEventsOf(c)
      keyEvents == keyEventsOf(validEvents)
      i == c.nStarts + 1
  IN  IF c.selectedMidiFile = NoFile THEN [c EXCEPT !.lastError = "noFile"]
      ELSE IF Len(validEvents) = 0 THEN [c EXCEPT !.lastError = "noValid"]
      ELSE IF Len(keyEvents) = 0
           THEN [setCountdownState(c) EXCEPT
                   !.playbackRemainingTime = Ceil(maxEndTime(validEvents)),
                   !.lastError = "noKey"]
      ELSE [setCountdownState(noteStart(c)) EXCEPT
              !.playbackRemainingTime = Ceil(maxEndTime(validEvents)),
              !.countdownSeconds = CountdownStart,
              !.cancelCountdownFunc = i,
              !.countdownInterval = i,
              !.nStarts = i,
              !.stopDone = FALSE,
              !.starts[i] = [NoStart EXCEPT
                               !.pc = "countdown",
                               !.validEvents = validEvents,
                               !.keyEvents = keyEvents,
                               !.cdLive = TRUE,
                               !.remaining = Ceil(maxEndTime(validEvents))]]

\* startPlayback from its call to the countdown wait.
startPlayback(c) ==
  LET validEvents == validEventsOf(c)
      keyEvents == keyEventsOf(validEvents)
      i == c.nStarts + 1
  IN  IF c.selectedMidiFile = NoFile THEN [c EXCEPT !.lastError = "noFile"]
      ELSE IF Len(validEvents) = 0 THEN [c EXCEPT !.lastError = "noValid"]
      ELSE IF Len(keyEvents) = 0 THEN [c EXCEPT !.lastError = "noKey"]
      ELSE [setCountdownState(noteStart(c)) EXCEPT
              !.playbackRemainingTime = Ceil(maxEndTime(validEvents)),
              !.countdownSeconds = CountdownStart,
              !.cancelCountdownFunc = i,
              !.countdownInterval = i,
              !.nStarts = i,
              !.stopDone = FALSE,
              !.starts[i] = [NoStart EXCEPT
                               !.pc = "countdown",
                               !.validEvents = validEvents,
                               !.keyEvents = keyEvents,
                               !.cdLive = TRUE,
                               !.remaining = Ceil(maxEndTime(validEvents))]]

\* Whether a startPlayback call would pass its three checks.
canStart(c) ==
  /\ c.selectedMidiFile # NoFile
  /\ Len(keyEventsOf(validEventsOf(c))) > 0

togglePlay(c) ==
  IF c.isPlaying THEN stopPlayback(c) ELSE startPlayback(c)

\* The callback of the countdown interval created by call i.
countdownTick(c, i) ==
  LET c1 == [c EXCEPT !.countdownSeconds = @ - 1,
                      !.starts[i].ticks = IF @ < CountdownStart THEN @ + 1 ELSE @]
  IN  IF c1.countdownSeconds <= 0
      THEN LET c2 == [clearCountdownInterval(c1) EXCEPT
                        !.countdownSeconds = 0, !.cancelCountdownFunc = 0]
           IN  IF c2.starts[i].pc = "countdown"
               THEN startPlaybackResume(c2, i)
               ELSE c2
      ELSE c1

\* The callback of the remaining-time interval created by call i.
playbackTick(c) ==
  LET c1 == [c EXCEPT !.playbackRemainingTime = @ - 1]
  IN  IF c1.playbackRemainingTime <= 0 THEN stopPlayback(c1) ELSE c1

\* invoke('start_playback') resolved for call i.
startPlaybackStarted(c, i) ==
  [c EXCEPT !.isPlaying = TRUE, !.playbackTimer = i,
            !.starts[i].pc = "playing", !.starts[i].tkLive = TRUE]

\* ----------------------------------------------- preview and audio preview
stopMidiPlayback(c) ==
  enablePlaybackButtons(
    [c EXCEPT !.toneSynth = FALSE, !.scheduledNotes = << >>,
              !.midiPlaybackTimer = FALSE,
              !.isPlayingMidi = FALSE, !.isPreviewing = FALSE,
              !.midiRemainingTime = 0])

\* The lowest free slot for a suspended startMidiPlayback call (0: none).
freeMidi(c) ==
  IF \E m \in MidiIds : c.midis[m].pc = "none"
  THEN CHOOSE m \in MidiIds :
         c.midis[m].pc = "none" /\ \A n \in 1..(m - 1) : c.midis[n].pc # "none"
  ELSE 0

\* What startPreview does once `await startMidiPlayback()` has returned.
afterStartMidiPlayback(c, preview) ==
  IF preview THEN setPreviewState([c EXCEPT !.isPreviewing = TRUE], TRUE) ELSE c

\* startMidiPlayback from its call to `await import('tone')`.
startMidiPlayback(c, preview) ==
  IF c.selectedMidiFile = NoFile
  THEN afterStartMidiPlayback([c EXCEPT !.lastError = "noFileMidi"], preview)
  ELSE [noteStart(c) EXCEPT
          !.midis[freeMidi(c)] = [pc |-> "import", preview |-> preview]]

\* The catch block of startMidiPlayback call m, and its return.
startMidiPlaybackCatch(c, m) ==
  afterStartMidiPlayback(
    stopMidiPlayback([c EXCEPT !.lastError = "midiFailed", !.midis[m] = NoMidi]),
    c.midis[m].preview)

\* midiEvents.forEach(...): the events whose note is handed to
\* toneSynth.triggerAttackRelease; with no synth every call throws and is
\* caught.
scheduledOf(c) ==
  IF c.toneSynth
  THEN SelectSeq(c.midiEvents,
                 LAMBDA e : e.type = "note_on" /\ e.note # 0 /\ e.velocity > 0)
  ELSE << >>

\* startMidiPlayback call m from "calculate the total length" to its return.
midiSchedule(c, m) ==
  LET c1 == [c EXCEPT !.midis[m] = NoMidi]
  IN  afterStartMidiPlayback(
        IF Len(c.midiEvents) = 0
        THEN stopMidiPlayback([c1 EXCEPT !.lastError = "noMidiEvents"])
        ELSE [c1 EXCEPT
                !.midiRemainingTime = Ceil(maxEndTime(c.midiEvents)),
                !.scheduledNotes = scheduledOf(c),
                !.leakedMidiTimers = IF c.midiPlaybackTimer THEN @ + 1 ELSE @,
                !.midiPlaybackTimer = TRUE],
        c.midis[m].preview)

\* startMidiPlayback call m after `await import('tone')`; running: whether
\* the audio context is already running.
midiImported(c, m, running) ==
  LET c1 == [c EXCEPT !.toneSynth = TRUE, !.scheduledNotes = << >>,
                      !.isPlayingMidi = TRUE]
  IN  IF running THEN midiSchedule(c1, m)
      ELSE [c1 EXCEPT !.midis[m].pc = "toneStart"]

startPreview(c) ==
  LET validEvents == InWindow(c.midiEvents, c.currentMinNote, c.currentMaxNote)
  IN  IF c.selectedMidiFile = NoFile THEN [c EXCEPT !.lastError = "noFilePreview"]
      ELSE IF Len(validEvents) = 0 THEN [c EXCEPT !.lastError = "noPreview"]
      ELSE startMidiPlayback([c EXCEPT !.midiEvents = validEvents], TRUE)

togglePreview(c) ==
  IF c.isPreviewing \/ c.isPlayingMidi THEN stopMidiPlayback(c)
  ELSE startPreview(c)

toggleMidiPlayback(c) ==
  IF c.isPlayingMidi THEN stopMidiPlayback(c)
  ELSE startMidiPlayback(setMidiPlaybackState(c, TRUE), FALSE)

\* The callback of an interval created by startMidiPlayback.
midiTick(c) ==
  LET c1 == [c EXCEPT !.midiRemainingTime = @ - 1]
  IN  IF c1.midiRemainingTime <= 0 THEN stopMidiPlayback(c1) ELSE c1

\* ------------------------------------------------------ track selection
\* Every track in the list has selected = true.
everySelected(ts) == \A j \in 1..Len(ts) : ts[j].selected

\* toggleSelectAll, run on the change event of the select-all checkbox.
toggleSelectAll(c) ==
  [c EXCEPT !.tracks = [j \in 1..Len(c.tracks) |->
                          [c.tracks[j] EXCEPT !.selected = c.allTracksSelected]]]

\* toggleTrackSelection that leaves the flag as it was.
toggleTrackSelection_KeepsFlag(c, k) == c

\* toggleTrackSelection(tracks[k].id), run on the change event of the
\* checkbox of track k.
toggleTrackSelection(c, k) ==
  [c EXCEPT !.allTracksSelected = everySelected(c.tracks)]

\* ------------------------------------------------ watch(selectedMidiFile)
\* A simulated-key session is active: a countdown is pending, or Playing.
keyActive(c) ==
  c.isPlaying \/ \E i \in StartIds : c.starts[i].pc = "countdown"

\* A preview or an audio preview is active.
midiActive(c) == c.isPlayingMidi \/ c.isPreviewing

\* The watcher from `if (isPlayingMidi || isPreviewing)` to invoke("parse_midi").
watchAfterStop(c, w) ==
  LET c1 == IF c.isPlayingMidi \/ c.isPreviewing THEN stopMidiPlayback(c) ELSE c
  IN  [c1 EXCEPT !.currentMinNote =
                   orDefault(c.keySettings.minNote, DefaultMinNote),
                 !.currentMaxNote =
                   orDefault(c.keySettings.maxNote, DefaultMaxNote),
                 !.watches[w].pc = "parse"]

\* The watcher from the change of the prop to its first pending await.
watchSelectedMidiFile(c0, w, newFile) ==
  LET c == [c0 EXCEPT !.selectedMidiFile = newFile,
                      !.watches[w] = [pc |-> "start", newFile |-> newFile,
                                      wasKey |-> keyActive(c0),
                                      wasMidi |-> midiActive(c0),
                                      restarted |-> FALSE]]
  IN  IF c.isPlaying \/ c.countdownSeconds > 0
      THEN LET c1 == stopPlayback(c)
           IN  IF stopInvokesBackend(c)
               THEN \* the watcher resumes when its own stop_playback call returns
                    [c1 EXCEPT !.stopsInFlight = @ - 1,
                               !.watches[w].pc = "stopBackend"]
               ELSE watchAfterStop(c1, w)
      ELSE watchAfterStop(c, w)

\* The watcher after parse_midi resolved.
watchParsed(c, w) ==
  enablePlaybackButtons(
    [c EXCEPT !.originalMidiEvents = ParseEvents(c.watches[w].newFile),
              !.midiEvents = ParseEvents(c.watches[w].newFile),
              !.tracks = ParseTracks(c.watches[w].newFile,
                                      c.currentMinNote, c.currentMaxNote),
              !.allTracksSelected = TRUE,
              !.reanalysisTimers = {},
              !.watches[w] = NoWatch])

\* The watcher after parse_midi rejected.
watchParseFailed(c, w) ==
  enablePlaybackButtons(
    [c EXCEPT !.lastError = "parseFailed",
              !.originalMidiEvents = << >>, !.midiEvents = << >>,
              !.tracks = << >>, !.reanalysisTimers = {},
              !.watches[w] = NoWatch])

\* ------------------------------------------------------ settings manager
\* initialize() that starts doInitialize whether or not a run is pending.
initialize_NoLock(si, k) ==
  IF si.isInitialized
  THEN [si EXCEPT !.calls[k] = [pc |-> "done", promise |-> 0]]
  ELSE [si EXCEPT !.runs = @ + 1,
                  !.initPromise = si.runs + 1,
                  !.loadPc[si.runs + 1] = "configPath",
                  !.calls[k] = [pc |-> "awaitOwn", promise |-> si.runs + 1]]

\* The k-th initialize() call up to its return or its await; doInitialize
\* runs up to the first await of initializeConfigPath.
initialize(si, k) ==
  IF si.isInitialized
  THEN [si EXCEPT !.calls[k] = [pc |-> "done", promise |-> 0]]
  ELSE IF si.initPromise # 0
  THEN [si EXCEPT !.calls[k] = [pc |-> "awaitExisting",
                               promise |-> si.initPromise]]
  ELSE [si EXCEPT !.runs = @ + 1,
                  !.initPromise = si.runs + 1,
                  !.loadPc[si.runs + 1] = "configPath",
                  !.calls[k] = [pc |-> "awaitOwn", promise |-> si.runs + 1]]

\* initializeConfigPath is over (every failure in it is caught and a path
\* is set): loadFromFile runs up to `await exists(...)`.
configPathDone(si, n) ==
  [si EXCEPT !.loads = @ + 1, !.loadPc[n] = "exists"]

\* exists() returned fileExists: the file is read, or the defaults stay.
existsReturned(si, n, fileExists) ==
  [si EXCEPT !.loadPc[n] = IF fileExists THEN "read" ELSE "done"]

\* exists() rejected: caught in loadFromFile.
existsFailed(si, n) == [si EXCEPT !.loadPc[n] = "done"]

\* readTextFile returned; parsed: whether JSON.parse accepted the text.
fileRead(si, n, parsed) ==
  [si EXCEPT !.loadPc[n] = "done", !.fromFile = parsed]

\* readTextFile rejected: caught in loadFromFile.
fileReadFailed(si, n) == [si EXCEPT !.loadPc[n] = "done"]

\* The call that started doInitialize, after `await this.initPromise`.
initializeResume(si, k) ==
  [si EXCEPT !.isInitialized = TRUE, !.initPromise = 0,
             !.calls[k].pc = "done"]

\* A call that returned the pending promise: its caller resumes.
initializeReturned(si, k) == [si EXCEPT !.calls[k].pc = "done"]

\* ------------------------------------------------------- settings dialog
\* saveSettings of the dialog up to the file write of settingsManager: the
\* settings in memory are replaced before the write is awaited.
saveSettings(c, s, local, modeChanged) ==
  [c EXCEPT !.keySettings = local,
            !.saves[s] = [NoSave EXCEPT !.pc = "write",
                                        !.old = c.keySettings,
                                        !.local = local,
                                        !.modeChanged = modeChanged]]

\* minNote, maxNote or blackKeyMode of the settings found differ from the ones
\* stored.
keySettingsChanged(save) ==
  \/ save.old.minNote # save.local.minNote
  \/ save.old.maxNote # save.local.maxNote
  \/ save.modeChanged

\* handleSettingsSaved up to invoke("parse_midi").
handleSettingsSaved(c, s, changed) ==
  IF changed
  THEN LET c1 == [c EXCEPT !.currentMinNote =
                             orDefault(c.keySettings.minNote, DefaultMinNote),
                           !.currentMaxNote =
                             orDefault(c.keySettings.maxNote, DefaultMaxNote)]
       IN  IF c1.selectedMidiFile # NoFile
           THEN [c1 EXCEPT !.saves[s].pc = "parse",
                           !.saves[s].filePath = c1.selectedMidiFile,
                           !.saves[s].minNote = c1.currentMinNote,
                           !.saves[s].maxNote = c1.currentMaxNote]
           ELSE [c1 EXCEPT !.saves[s] = NoSave]
  ELSE [c EXCEPT !.saves[s] = NoSave]

\* saveSettings of the dialog once the file write is over (a failed write is
\* caught in settingsManager): the dialog emits settingsSaved.
settingsWritten(c, s) ==
  handleSettingsSaved(c, s, keySettingsChanged(c.saves[s]))

\* handleSettingsSaved after parse_midi resolved.
settingsParsed(c, s) ==
  [c EXCEPT !.originalMidiEvents = ParseEvents(c.saves[s].filePath),
            !.midiEvents = ParseEvents(c.saves[s].filePath),
            !.tracks = ParseTracks(c.saves[s].filePath,
                                    c.saves[s].minNote, c.saves[s].maxNote),
            !.allTracksSelected = TRUE,
            !.reanalysisTimers = {},
            !.saves[s] = NoSave]

\* handleSettingsSaved after parse_midi rejected: the error is logged.
settingsParseFailed(c, s) ==
  [c EXCEPT !.lastError = "reparseFailed", !.saves[s] = NoSave]

\* ------------------------------------------------- transpose and octave
\* tracks.value.find(t => t.id === trackId): the position of the first track
\* with the id, 0 when there is none.
findTrack(c, trackId) ==
  LET found == {k \in 1..Len(c.tracks) : c.tracks[k].id = trackId}
  IN  IF found = {} THEN 0 ELSE Min(found)

\* reanalyzeTrack without its early return: Math.max() of no notes is
\* -Infinity and Math.min() is Infinity, so both flags are set.
reanalyzeTrack_NoEarlyReturn(c, k) ==
  LET track == c.tracks[k]
      notes == noteOnNotes(c.originalMidiEvents, track.id)
      limit_min == orDefault(c.keySettings.minNote, DefaultMinNote)
      limit_max == orDefault(c.keySettings.maxNote, DefaultMaxNote)
  IN  IF Len(notes) = 0
      THEN [c EXCEPT !.tracks[k].analysis.is_max_over_limit = TRUE,
                     !.tracks[k].analysis.is_min_over_limit = TRUE]
      ELSE [c EXCEPT !.tracks[k].analysis =
              analysisOf(notes, track.transpose, track.octave,
                         limit_min, limit_max)]

\* reanalyzeTrack writing the adjusted notes of the track into midiEvents.
reanalyzeTrack_ShiftsEvents(c, k) ==
  LET track == c.tracks[k]
      notes == noteOnNotes(c.originalMidiEvents, track.id)
      limit_min == orDefault(c.keySettings.minNote, DefaultMinNote)
      limit_max == orDefault(c.keySettings.maxNote, DefaultMaxNote)
      adjustment == track.transpose + track.octave * 12
      adjusted(e) == IF e.track = track.id /\ e.type = "note_on"
                     THEN [e EXCEPT !.note = @ + adjustment] ELSE e
  IN  IF Len(notes) = 0 THEN c
      ELSE [c EXCEPT !.tracks[k].analysis =
                       analysisOf(notes, track.transpose, track.octave,
                                  limit_min, limit_max),
                     !.midiEvents =
                       [j \in 1..Len(c.originalMidiEvents) |->
                          adjusted(c.originalMidiEvents[j])]]

reanalyzeTrack(c, k) ==
  LET track == c.tracks[k]
      notes == noteOnNotes(c.originalMidiEvents, track.id)
      limit_min == orDefault(c.keySettings.minNote, DefaultMinNote)
      limit_max == orDefault(c.keySettings.maxNote, DefaultMaxNote)
  IN  IF Len(notes) = 0 THEN c
      ELSE [c EXCEPT !.tracks[k].analysis =
              analysisOf(notes, track.transpose, track.octave,
                         limit_min, limit_max)]

\* adjustTranspose storing the new analysis on every track.
adjustTranspose_AllTracks(c, trackId, delta) ==
  LET k == findTrack(c, trackId)
      d == reanalyzeTrack([c EXCEPT !.tracks[k].transpose = @ + delta], k)
  IN  IF k = 0 THEN c
      ELSE [d EXCEPT !.tracks = [j \in 1..Len(d.tracks) |->
                       [d.tracks[j] EXCEPT !.analysis = d.tracks[k].analysis]]]

adjustTranspose(c, trackId, delta) ==
  LET k == findTrack(c, trackId)
  IN  IF k = 0 THEN c
      ELSE reanalyzeTrack([c EXCEPT !.tracks[k].transpose = @ + delta], k)

\* adjustOctave without the call of reanalyzeTrack.
adjustOctave_NoReanalysis(c, trackId, delta) ==
  LET k == findTrack(c, trackId)
  IN  IF k = 0 THEN c
      ELSE [c EXCEPT !.tracks[k].octave = @ + delta]

adjustOctave(c, trackId, delta) ==
  LET k == findTrack(c, trackId)
  IN  IF k = 0 THEN c
      ELSE reanalyzeTrack([c EXCEPT !.tracks[k].octave = @ + delta], k)

resetTranspose(c, trackId) ==
  LET k == findTrack(c, trackId)
  IN  IF k = 0 THEN c
      ELSE reanalyzeTrack([c EXCEPT !.tracks[k].transpose = 0,
                                    !.tracks[k].octave = 0], k)

\* applySuggestion with the suggestion of the other extreme applied.
applySuggestion_OtherExtreme(c, k, type) ==
  LET analysis == c.tracks[k].analysis
  IN  IF /\ type = "max"
         /\ analysis.suggested_min_transpose # Null
         /\ analysis.suggested_min_octave # Null
      THEN reanalyzeTrack(
             [c EXCEPT !.tracks[k].transpose = analysis.suggested_min_transpose[1],
                       !.tracks[k].octave = analysis.suggested_min_octave[1]], k)
      ELSE IF /\ type = "min"
              /\ analysis.suggested_max_transpose # Null
              /\ analysis.suggested_max_octave # Null
      THEN reanalyzeTrack(
             [c EXCEPT !.tracks[k].transpose = analysis.suggested_max_transpose[1],
                       !.tracks[k].octave = analysis.suggested_max_octave[1]], k)
      ELSE c

\* applySuggestion(track, type), track being the track at position k.
applySuggestion(c, k, type) ==
  LET analysis == c.tracks[k].analysis
  IN  IF /\ type = "max"
         /\ analysis.suggested_max_transpose # Null
         /\ analysis.suggested_max_octave # Null
      THEN reanalyzeTrack(
             [c EXCEPT !.tracks[k].transpose = analysis.suggested_max_transpose[1],
                       !.tracks[k].octave = analysis.suggested_max_octave[1]], k)
      ELSE IF /\ type = "min"
              /\ analysis.suggested_min_transpose # Null
              /\ analysis.suggested_min_octave # Null
      THEN reanalyzeTrack(
             [c EXCEPT !.tracks[k].transpose = analysis.suggested_min_transpose[1],
                       !.tracks[k].octave = analysis.suggested_min_octave[1]], k)
      ELSE c

\* The watcher of the transposes and octaves of the tracks, run after a
\* handler took the state from c0 to c1: a timer is set for the track with
\* the id found at each position whose transpose or octave differs.  (The
\* timers are kept as a set: a second re-analysis of a track by a second
\* timer finds the values the first one found unless something changed in
\* between, and then a timer was set again.)
tracksWatch(c0, c1) ==
  LET changed == { i \in 1..Len(c1.tracks) :
                     /\ i <= Len(c0.tracks)
                     /\ \/ c1.tracks[i].transpose # c0.tracks[i].transpose
                        \/ c1.tracks[i].octave # c0.tracks[i].octave }
  IN  [c1 EXCEPT !.reanalysisTimers =
         @ \cup ({findTrack(c1, c1.tracks[i].id) : i \in changed} \ {0})]

\* The callback of the timer set for the track at position k.
reanalysisTimer(c, k) ==
  reanalyzeTrack([c EXCEPT !.reanalysisTimers = @ \ {k}], k)

\* The types of the suggestion links getTrackAnalysisLines gives for a track.
suggestionLinks(track) ==
  LET analysis == track.analysis
  IN  IF analysis.max_note = 0 \/ analysis.min_note = 0 THEN {}
      ELSE (IF /\ analysis.is_max_over_limit
               /\ analysis.suggested_max_transpose # Null
               /\ analysis.suggested_max_octave # Null
            THEN {"max"} ELSE {})
           \cup
           (IF /\ analysis.is_min_over_limit
               /\ analysis.suggested_min_transpose # Null
               /\ analysis.suggested_min_octave # Null
            THEN {"min"} ELSE {})

\* ---------------------------------------------------------------- actions
\* A run of togglePlay may need a slot for the start request it makes.
\* (limit: the number of start requests the specification follows.)
TogglePlayRun(limit) ==
  /\ (~isPlaying /\ canStart(Cur)) => nStarts < limit
  /\ Commit(togglePlay(Cur))

\* The play button.
PlayButton(limit) == isPlayButtonEnabled /\ TogglePlayRun(limit)

\* The START_PAUSE global shortcut: rightPanelRef.value?.togglePlay().
StartPauseShortcut(limit) == TogglePlayRun(limit)

\* The stop button.
StopButton == isStopButtonEnabled /\ Commit(stopPlayback(Cur))

\* The STOP global shortcut: rightPanelRef.value?.stopPlayback().
StopShortcut == Commit(stopPlayback(Cur))

PreviewButton ==
  /\ isPreviewButtonEnabled
  /\ (~(isPreviewing \/ isPlayingMidi)) => freeMidi(Cur) # 0
  /\ Commit(togglePreview(Cur))

MidiPlaybackButton ==
  /\ isMidiPlaybackButtonEnabled
  /\ ~isPlayingMidi => freeMidi(Cur) # 0
  /\ Commit(toggleMidiPlayback(Cur))

\* The checkbox of track k (v-model flips track.selected).
ToggleTrack(k) ==
  /\ k \in 1..Len(tracks)
  /\ Commit(toggleTrackSelection([Cur EXCEPT !.tracks[k].selected = ~@], k))

\* The song list of the left panel: a folder is read, the search box is
\* edited, the previous and the next song are asked for.
LoadMidiFiles(names) ==
  /\ names \subseteq FileNames
  /\ Commit([Cur EXCEPT !.songList = loadMidiFiles(@, names)])

LoadMidiFilesFails ==
  /\ songList.allMidiFiles # << >>
  /\ Commit([Cur EXCEPT !.songList = loadMidiFilesFailed(@)])

FilterSongs(matching) ==
  /\ matching \subseteq FileNames
  /\ Commit([Cur EXCEPT !.songList = filterSongs(@, matching)])

SelectPrevSong ==
  \E l \in {selectPrevSong(songList)} : Commit([Cur EXCEPT !.songList = l])

SelectNextSong ==
  \E l \in {selectNextSong(songList)} : Commit([Cur EXCEPT !.songList = l])

\* The select-all checkbox (v-model flips allTracksSelected).
ToggleSelectAll ==
  \E checked \in {~allTracksSelected} :
    Commit(toggleSelectAll([Cur EXCEPT !.allTracksSelected = checked]))

\* A song of the list is clicked: the prop changes and the watcher runs.
SelectSong(f, w) ==
  /\ f # selectedMidiFile
  /\ watches[w].pc = "none"
  /\ \A v \in 1..(w - 1) : watches[v].pc # "none"
  /\ Commit(watchSelectedMidiFile(Cur, w, f))

CountdownTick(i) ==
  /\ starts[i].cdLive
  /\ Commit(countdownTick(Cur, i))

PlaybackTick(i) ==
  /\ starts[i].tkLive
  /\ Commit(playbackTick(Cur))

MidiTick ==
  /\ midiPlaybackTimer
  /\ Commit(midiTick(Cur))

LeakedMidiTick ==
  /\ leakedMidiTimers > 0
  /\ Commit(midiTick(Cur))

StartPlaybackReturns(i) ==
  /\ starts[i].pc = "invoking"
  /\ Commit(startPlaybackStarted(Cur, i))

StartPlaybackFails(i) ==
  /\ starts[i].pc = "invoking"
  /\ Commit(startPlaybackCatch([Cur EXCEPT !.lastError = "startFailed"], i, "failed"))

StopPlaybackReturns ==
  /\ stopsInFlight > 0
  /\ Commit(stopPlaybackFinish([Cur EXCEPT !.stopsInFlight = @ - 1]))

StopPlaybackFails ==
  /\ stopsInFlight > 0
  /\ Commit(stopPlaybackFinish([Cur EXCEPT !.stopsInFlight = @ - 1,
                                          !.lastError = "stopFailed"]))

\* The stop_playback call made for watcher w returns (or fails: the same path).
WatchStopReturns(w) ==
  /\ watches[w].pc = "stopBackend"
  /\ Commit(watchAfterStop(stopPlaybackFinish(Cur), w))

ParseReturns(w) ==
  /\ watches[w].pc = "parse"
  /\ Commit(tracksWatch(Cur, watchParsed(Cur, w)))

ParseFails(w) ==
  /\ watches[w].pc = "parse"
  /\ Commit(tracksWatch(Cur, watchParseFailed(Cur, w)))

\* The save button of the settings dialog, the pickers holding `window`.
SaveSettings(s, window, modeChanged) ==
  /\ saves[s].pc = "none"
  /\ \A v \in 1..(s - 1) : saves[v].pc # "none"
  /\ Commit(saveSettings(Cur, s, [minNote |-> window[1], maxNote |-> window[2]],
                         modeChanged))

\* The file write of a save is over.
SettingsWritten(s) ==
  /\ saves[s].pc = "write"
  /\ Commit(settingsWritten(Cur, s))

\* The parse_midi call of handleSettingsSaved returns.
ReparseReturns(s) ==
  /\ saves[s].pc = "parse"
  /\ Commit(tracksWatch(Cur, settingsParsed(Cur, s)))

ReparseFails(s) ==
  /\ saves[s].pc = "parse"
  /\ Commit(settingsParseFailed(Cur, s))

\* A component calls settingsManager.initialize() on mount.
Initialize(k) ==
  /\ settingsInit.calls[k].pc = "none"
  /\ Commit([Cur EXCEPT !.settingsInit = initialize(settingsInit, k)])

ConfigPathDone(n) ==
  /\ settingsInit.loadPc[n] = "configPath"
  /\ Commit([Cur EXCEPT !.settingsInit = configPathDone(settingsInit, n)])

ExistsReturns(n, fileExists) ==
  /\ settingsInit.loadPc[n] = "exists"
  /\ Commit([Cur EXCEPT !.settingsInit =
                          existsReturned(settingsInit, n, fileExists)])

ExistsFails(n) ==
  /\ settingsInit.loadPc[n] = "exists"
  /\ Commit([Cur EXCEPT !.settingsInit = existsFailed(settingsInit, n)])

\* When JSON.parse accepted the text, this.settings is replaced by an object
\* built from the file and the defaults, which has no keySettings.
FileReadReturns(n, parsed) ==
  /\ settingsInit.loadPc[n] = "read"
  /\ Commit([Cur EXCEPT !.settingsInit = fileRead(settingsInit, n, parsed),
                        !.keySettings = IF parsed
                                        THEN [minNote |-> 0, maxNote |-> 0]
                                        ELSE @])

FileReadFails(n) ==
  /\ settingsInit.loadPc[n] = "read"
  /\ Commit([Cur EXCEPT !.settingsInit = fileReadFailed(settingsInit, n)])

\* The promise of doInitialize has resolved: the call awaiting it resumes.
InitializeResumes(k) ==
  /\ settingsInit.calls[k].pc = "awaitOwn"
  /\ settingsInit.loadPc[settingsInit.calls[k].promise] = "done"
  /\ Commit([Cur EXCEPT !.settingsInit = initializeResume(settingsInit, k)])

\* The promise a call returned has resolved: its caller resumes.
InitializeReturns(k) ==
  /\ settingsInit.calls[k].pc = "awaitExisting"
  /\ settingsInit.loadPc[settingsInit.calls[k].promise] = "done"
  /\ Commit([Cur EXCEPT !.settingsInit = initializeReturned(settingsInit, k)])

MidiImportReturns(m, running) ==
  /\ midis[m].pc = "import"
  /\ Commit(midiImported(Cur, m, running))

MidiImportFails(m) ==
  /\ midis[m].pc = "import"
  /\ Commit(startMidiPlaybackCatch(Cur, m))

ToneStartReturns(m) ==
  /\ midis[m].pc = "toneStart"
  /\ Commit(midiSchedule(Cur, m))

ToneStartFails(m) ==
  /\ midis[m].pc = "toneStart"
  /\ Commit(startMidiPlaybackCatch(Cur, m))

\* Every handler, with previews and song changes.
Next ==
  \/ PlayButton(MaxModeStarts)
  \/ StartPauseShortcut(MaxModeStarts)
  \/ StopButton
  \/ StopShortcut
  \/ PreviewButton
  \/ MidiPlaybackButton
  \/ \E k \in 1..MaxToggled : ToggleTrack(k)
  \/ \E f \in Songs, w \in WatchIds : SelectSong(f, w)
  \/ \E i \in StartIds : CountdownTick(i)
  \/ \E i \in StartIds : PlaybackTick(i)
  \/ MidiTick
  \/ LeakedMidiTick
  \/ \E i \in StartIds : StartPlaybackReturns(i)
  \/ \E i \in StartIds : StartPlaybackFails(i)
  \/ StopPlaybackReturns
  \/ StopPlaybackFails
  \/ \E w \in WatchIds : WatchStopReturns(w)
  \/ \E w \in WatchIds : ParseReturns(w)
  \/ \E w \in WatchIds : ParseFails(w)
  \/ \E m \in MidiIds, running \in BOOLEAN : MidiImportReturns(m, running)
  \/ \E m \in MidiIds : MidiImportFails(m)
  \/ \E m \in MidiIds : ToneStartReturns(m)
  \/ \E m \in MidiIds : ToneStartFails(m)

Spec == Init /\ [][Next]_vars

\* The simulated-key playback alone: no song is selected, or song 1 has been
\* selected and parsed; the play and stop controls, the ticks and the backend.
InitCore ==
  \/ Holds(InitialState)
  \/ Holds(watchParsed(watchSelectedMidiFile(InitialState, 1, 1), 1))

NextCore ==
  \/ PlayButton(MaxStarts)
  \/ StartPauseShortcut(MaxStarts)
  \/ StopButton
  \/ StopShortcut
  \/ \E k \in 1..2 : ToggleTrack(k)
  \/ \E i \in StartIds : CountdownTick(i)
  \/ \E i \in StartIds : PlaybackTick(i)
  \/ \E i \in StartIds : StartPlaybackReturns(i)
  \/ \E i \in StartIds : StartPlaybackFails(i)
  \/ StopPlaybackReturns
  \/ StopPlaybackFails

SpecCore == InitCore /\ [][NextCore]_vars

\* The simulated-key playback of one start request, given that the
\* remaining-time interval keeps ticking and that a stop_playback call
\* returns (with or without an error).
NextLive ==
  \/ PlayButton(MaxModeStarts)
  \/ StartPauseShortcut(MaxModeStarts)
  \/ StopButton
  \/ StopShortcut
  \/ \E k \in 1..2 : ToggleTrack(k)
  \/ \E i \in StartIds : CountdownTick(i)
  \/ \E i \in StartIds : PlaybackTick(i)
  \/ \E i \in StartIds : StartPlaybackReturns(i)
  \/ \E i \in StartIds : StartPlaybackFails(i)
  \/ StopPlaybackReturns
  \/ StopPlaybackFails

SpecLive ==
  /\ InitCore
  /\ [][NextLive]_vars
  /\ WF_vars(\E i \in StartIds : PlaybackTick(i))
  /\ WF_vars(StopPlaybackReturns \/ StopPlaybackFails)

\* Sanity of the model's own bookkeeping.
\* The dispatch plan alone: a song whose parse result is any short list of
\* events over two tracks has been loaded under one of two windows; the
\* track checkboxes, the play button, the countdown and the backend.
MaxPlanLen == 3

PlanEvents ==
  { Ev(0, "note_on", 40, 0, 2, 2, 100),
    Ev(0, "note_on", 60, 0, 0, 0, 100),
    Ev(0, "note_on", 60, 3, 2, 5, 100),
    Ev(0, "note_off", 60, 3, 0, 0, 0),
    Ev(1, "note_on", 61, 3, 2, 5, 100),
    Ev(1, "note_on", 62, 0, 2, 2, 100),
    Ev(1, "note_on", 64, 6, 0, 0, 100),
    Ev(1, "note_on", 90, 3, 2, 5, 100) }

PlanLists == UNION { [1..n -> PlanEvents] : n \in 1..MaxPlanLen }

PlanWindows == { << DefaultMinNote, DefaultMaxNote >>, << 60, 62 >> }

\* The state once the watcher has loaded a song for which parse_midi
\* returned `events` and the tracks `ids`, the settings holding the window.
songLoaded(events, ids, minNote, maxNote) ==
  enablePlaybackButtons(
    [InitialState EXCEPT
       !.selectedMidiFile = 1,
       !.keySettings = [minNote |-> minNote, maxNote |-> maxNote],
       !.currentMinNote = orDefault(minNote, DefaultMinNote),
       !.currentMaxNote = orDefault(maxNote, DefaultMaxNote),
       !.originalMidiEvents = events,
       !.midiEvents = events,
       !.tracks = loadTracks(events, ids,
                             orDefault(minNote, DefaultMinNote),
                             orDefault(maxNote, DefaultMaxNote))])

InitPlan ==
  \E events \in PlanLists, w \in PlanWindows :
    Holds(songLoaded(events, << 0, 1 >>, w[1], w[2]))

NextPlan ==
  \/ \E k \in 1..2 : ToggleTrack(k)
  \/ PlayButton(MaxModeStarts)
  \/ \E i \in StartIds : CountdownTick(i)
  \/ \E i \in StartIds : StartPlaybackReturns(i)
  \/ StopPlaybackReturns

SpecPlan == InitPlan /\ [][NextPlan]_vars

\* The track analysis alone: a song with no to two note-on events in track
\* 0 and one in track 1 has been loaded under one of three windows; the
\* transpose and octave buttons and fields, the reset link, the suggestion
\* links and the timers of the watcher.
MaxTranspose == 5     \* |transpose| of the first track
MaxOctave == 1        \* |octave| of the first track
MaxOtherTranspose == 1  \* |transpose| of the other tracks
MaxOtherOctave == 0   \* |octave| of the other tracks
MaxTimers == 1        \* re-analysis timers pending at the same time

\* The notes of the note-on events of track 0, in the order of the list.
AnalysisNoteLists ==
  { << >>, << 40 >>, << 60 >>, << 90 >>, << 40, 90 >>, << 90, 90 >> }

AnalysisWindows ==
  { << DefaultMinNote, DefaultMaxNote >>, << 60, 64 >>, << 83, 48 >> }

\* The parsed list of a song whose track 0 plays `notes`.
analysisSong(notes) ==
  << Ev(0, "note_off", 30, 0, 0, 0, 0) >>
  \o [k \in 1..Len(notes) |-> Ev(0, "note_on", notes[k], k, 2, k + 2, 100)]
  \o << Ev(1, "note_on", 50, 0, 2, 2, 100) >>

\* The numbers typed into the transpose and octave fields.
TypedValues == {1}

InitAnalysis ==
  \E notes \in AnalysisNoteLists, w \in AnalysisWindows :
    Holds(songLoaded(analysisSong(notes), << 0, 1 >>, w[1], w[2]))

\* The transpose and octave of every track stay within the bounds.
withinShiftBounds(c) ==
  \A k \in 1..Len(c.tracks) :
    /\ Abs(c.tracks[k].transpose)
         <= (IF k = 1 THEN MaxTranspose ELSE MaxOtherTranspose)
    /\ Abs(c.tracks[k].octave)
         <= (IF k = 1 THEN MaxOctave ELSE MaxOtherOctave)

\* A handler of the track list took the state to c1; the watcher of the
\* transposes and octaves runs before the handler's task ends.
TrackHandler(c1) ==
  \E d \in {tracksWatch(Cur, c1)} :
    /\ withinShiftBounds(d)
    /\ Cardinality(d.reanalysisTimers) <= MaxTimers
    /\ Commit(d)

\* The - and + buttons of the transpose of track k.
AdjustTranspose(k, delta) ==
  /\ k \in 1..Len(tracks)
  /\ TrackHandler(adjustTranspose(Cur, tracks[k].id, delta))

\* The - and + buttons of the octave of track k.
AdjustOctave(k, delta) ==
  /\ k \in 1..Len(tracks)
  /\ TrackHandler(adjustOctave(Cur, tracks[k].id, delta))

\* The reset link of track k.
ResetTranspose(k) ==
  /\ k \in 1..Len(tracks)
  /\ TrackHandler(resetTranspose(Cur, tracks[k].id))

\* A suggestion link of track k.
ApplySuggestion(k, type) ==
  /\ k \in 1..Len(tracks)
  /\ type \in suggestionLinks(tracks[k])
  /\ TrackHandler(applySuggestion(Cur, k, type))

\* A number is typed into the transpose field of track k (v-model).
TypeTranspose(k, v) ==
  /\ k \in 1..Len(tracks)
  /\ TrackHandler([Cur EXCEPT !.tracks[k].transpose = v])

\* A number is typed into the octave field of track k (v-model).
TypeOctave(k, v) ==
  /\ k \in 1..Len(tracks)
  /\ TrackHandler([Cur EXCEPT !.tracks[k].octave = v])

\* The timer the watcher set for track k fires.
ReanalysisTimer(k) ==
  /\ k \in reanalysisTimers
  /\ Commit(reanalysisTimer(Cur, k))

NextAnalysis ==
  \/ \E k \in 1..2, delta \in {-1, 1} : AdjustTranspose(k, delta)
  \/ \E k \in 1..2, delta \in {-1, 1} : AdjustOctave(k, delta)
  \/ \E k \in 1..2 : ResetTranspose(k)
  \/ \E k \in 1..2, type \in {"max", "min"} : ApplySuggestion(k, type)
  \/ \E k \in 1..2, v \in TypedValues : TypeTranspose(k, v)
  \/ \E k \in 1..2, v \in TypedValues : TypeOctave(k, v)
  \/ \E k \in 1..2 : ReanalysisTimer(k)

SpecAnalysis == InitAnalysis /\ [][NextAnalysis]_vars

\* The window alone: no song is selected, or song 1 has been selected and
\* parsed; the song list, the settings dialog, the transpose field of the
\* first track, the track checkboxes and the timers of the watcher.  Nothing
\* plays.
SaveWindows == { << DefaultMinNote, DefaultMaxNote >>, << 60, 64 >> }

NextWindow ==
  \/ \E s \in SaveIds, window \in SaveWindows, modeChanged \in BOOLEAN :
       SaveSettings(s, window, modeChanged)
  \/ \E s \in SaveIds : SettingsWritten(s)
  \/ \E s \in SaveIds : ReparseReturns(s)
  \/ \E s \in SaveIds : ReparseFails(s)
  \/ \E f \in Songs, w \in WatchIds : SelectSong(f, w)
  \/ \E w \in WatchIds : ParseReturns(w)
  \/ \E w \in WatchIds : ParseFails(w)
  \/ \E k \in 1..2 : ToggleTrack(k)
  \/ \E v \in TypedValues : TypeTranspose(1, v)
  \/ \E k \in 1..2 : ReanalysisTimer(k)

SpecWindow == InitCore /\ [][NextWindow]_vars

\* The settings manager alone: the initialize() calls of the mounting
\* components and the file system replies of doInitialize.
NextInit ==
  \/ \E k \in InitCallIds : Initialize(k)
  \/ \E n \in InitCallIds : ConfigPathDone(n)
  \/ \E n \in InitCallIds, fileExists \in BOOLEAN : ExistsReturns(n, fileExists)
  \/ \E n \in InitCallIds : ExistsFails(n)
  \/ \E n \in InitCallIds, parsed \in BOOLEAN : FileReadReturns(n, parsed)
  \/ \E n \in InitCallIds : FileReadFails(n)
  \/ \E k \in InitCallIds : InitializeResumes(k)
  \/ \E k \in InitCallIds : InitializeReturns(k)

SpecInit == Init /\ [][NextInit]_vars

\* The preview and the audio preview of a song that has been loaded, given that an
\* interval created by startMidiPlayback keeps ticking while it is live.
NextMidiLive ==
  \/ PreviewButton
  \/ MidiPlaybackButton
  \/ MidiTick
  \/ LeakedMidiTick
  \/ \E m \in MidiIds, running \in BOOLEAN : MidiImportReturns(m, running)
  \/ \E m \in MidiIds : MidiImportFails(m)
  \/ \E m \in MidiIds : ToneStartReturns(m)
  \/ \E m \in MidiIds : ToneStartFails(m)

SpecMidiLive ==
  /\ \E f \in Songs : Holds(watchParsed(watchSelectedMidiFile(InitialState, f, 1), 1))
  /\ [][NextMidiLive]_vars
  /\ WF_vars(MidiTick)

\* The track list: songs are loaded by the watcher and loaded again after
\* a save of the settings dialog, and the check boxes of the tracks and the
\* select-all check box are clicked.
NextSelection ==
  \/ \E s \in SaveIds, window \in SaveWindows : SaveSettings(s, window, FALSE)
  \/ \E s \in SaveIds : SettingsWritten(s)
  \/ \E s \in SaveIds : ReparseReturns(s)
  \/ \E s \in SaveIds : ReparseFails(s)
  \/ \E f \in Songs, w \in WatchIds : SelectSong(f, w)
  \/ \E w \in WatchIds : ParseReturns(w)
  \/ \E w \in WatchIds : ParseFails(w)
  \/ \E k \in 1..2 : ToggleTrack(k)
  \/ ToggleSelectAll

SpecSelection == Holds(InitialState) /\ [][NextSelection]_vars

\* The song list of the left panel alone.
NextSongList ==
  \/ \E names \in SUBSET FileNames : LoadMidiFiles(names)
  \/ LoadMidiFilesFails
  \/ \E matching \in SUBSET FileNames : FilterSongs(matching)
  \/ SelectPrevSong
  \/ SelectNextSong

SpecSongList == Holds(InitialState) /\ [][NextSongList]_vars

\* The start of the application with the settings dialog: the components
\* call initialize() on mount, and the dialog can be opened and saved before
\* the settings file has been read.  No song is selected.
NextStartup ==
  \/ NextInit
  \/ \E s \in SaveIds, window \in SaveWindows, modeChanged \in BOOLEAN :
       SaveSettings(s, window, modeChanged)
  \/ \E s \in SaveIds : SettingsWritten(s)

SpecStartup == Init /\ [][NextStartup]_vars

\* One call of optimizeTransposeSuggestion on numbers that are multiples of
\* 1/2, as a transpose or octave typed into its field can be: the arguments
\* are held in halves.
MaxDiff == 13         \* |diff| in semitones
MaxCallShift == 3     \* |current_transpose| and |current_octave|, in halves

calledWith(diff, current_transpose, current_octave) ==
  [pc |-> "called", diff |-> diff, current_transpose |-> current_transpose,
   current_octave |-> current_octave, result |-> Null]

optimizerReturned(call) ==
  [call EXCEPT !.pc = "returned",
               !.result = optimizeTransposeSuggestionAt(
                            2, call.diff, call.current_transpose,
                            call.current_octave)]

InitOptimizer ==
  \E diff \in -2 * MaxDiff..2 * MaxDiff,
     current_transpose \in -MaxCallShift..MaxCallShift,
     current_octave \in -MaxCallShift..MaxCallShift :
    Holds([InitialState EXCEPT !.optimizerCall =
             calledWith(diff, current_transpose, current_octave)])

OptimizerReturns ==
  /\ optimizerCall.pc = "called"
  /\ Commit([Cur EXCEPT !.optimizerCall = optimizerReturned(optimizerCall)])

NextOptimizer == OptimizerReturns

SpecOptimizer == InitOptimizer /\ [][NextOptimizer]_vars

TypeOK ==
  /\ cancelCountdownFunc # 0 => starts[cancelCountdownFunc].pc = "countdown"
  /\ countdownInterval # 0 => starts[countdownInterval].cdLive
  /\ playbackTimer # 0 => starts[playbackTimer].tkLive
  /\ \A i \in StartIds : starts[i].tkLive => starts[i].pc \in {"playing", "ended"}
  /\ countdownSeconds \in 0..CountdownStart
  /\ stopsInFlight \in 0..MaxStops

\* ------------------------------------------------------------ the claims
\* No interval of the playback controller is live.
noIntervalLive ==
  \A i \in StartIds : ~starts[i].cdLive /\ ~starts[i].tkLive

\* The buttons as enablePlaybackButtons leaves them.
idleButtons ==
  /\ isPlayButtonEnabled /\ ~isStopButtonEnabled
  /\ isPreviewButtonEnabled /\ isMidiPlaybackButtonEnabled

\* C1: a stopPlayback call made while a start request is in its countdown,
\* before that request's 3rd tick, keeps the request from ever invoking
\* start_playback.
C1_StopInCountdownPreventsStart ==
  \A i \in StartIds : starts[i].stopped => starts[i].calls = 0

\* C3: once a stopPlayback call has completed, and until a new start request
\* is made, isPlaying is false, no countdown interval and no remaining-time
\* ticker is live and both counters are 0.
C3_StopReturnsToIdle ==
  stopDone =>
    /\ ~isPlaying
    /\ countdownSeconds = 0
    /\ playbackRemainingTime = 0
    /\ countdownInterval = 0 /\ playbackTimer = 0
    /\ noIntervalLive

\* C5: a start request that no stop interfered with invokes start_playback
\* only after 3 ticks of its own countdown, and with the plan it computed.
C5_StartAfterThreeTicks ==
  \A i \in StartIds :
    (starts[i].calls > 0 /\ ~starts[i].stopped) =>
      /\ starts[i].ticks = CountdownStart
      /\ starts[i].calls = 1
      /\ starts[i].sent = starts[i].keyEvents

\* C6: a session that started and has ended was stopped by exactly one
\* stop_playback call.
C6_StopInvokedOncePerSession ==
  \A i \in StartIds : starts[i].pc = "ended" => starts[i].stops = 1

\* C9: when start_playback has rejected and the catch block has run to its
\* end, the controller is Idle: not playing, no interval live, no countdown,
\* the buttons in their Idle configuration.
C9_StartFailureReturnsToIdle ==
  (lastError = "startFailed" /\ stopsInFlight = 0) =>
    /\ ~isPlaying
    /\ countdownSeconds = 0
    /\ countdownInterval = 0 /\ playbackTimer = 0
    /\ noIntervalLive
    /\ idleButtons

\* C2: a simulated-key session (countdown pending or isPlaying) is never
\* active together with a preview or an audio preview.
C2_OneModeAtATime ==
  ~(keyActive(Cur) /\ midiActive(Cur))

\* The watcher w stores the tracks and events of the new song in this step.
tracksLoaded(w) == watches[w].pc = "parse" /\ watches'[w].pc = "none"

\* C10: when the watcher stores the new song's tracks and no start was
\* requested since the switch, a mode that was active at the switch (a
\* simulated-key session; a preview or audio preview) is not active.
C10_SwitchStopsEveryMode ==
  [][\A w \in WatchIds :
       (tracksLoaded(w) /\ ~watches[w].restarted) =>
         /\ watches[w].wasKey => ~keyActive(Cur)
         /\ watches[w].wasMidi => ~midiActive(Cur)]_vars

\* The state without the report of the last handler run.
stateVars ==
  << selectedMidiFile, tracks, midiEvents, originalMidiEvents,
     allTracksSelected, keySettings, reanalysisTimers, currentMinNote, currentMaxNote,
     isPlaying, playbackRemainingTime, playbackTimer,
     countdownSeconds, countdownInterval, cancelCountdownFunc,
     isPlayButtonEnabled, isStopButtonEnabled,
     isPreviewButtonEnabled, isMidiPlaybackButtonEnabled,
     isPlayingMidi, isPreviewing, midiRemainingTime, midiPlaybackTimer,
     toneSynth, scheduledNotes, starts, nStarts, stopsInFlight, midis, leakedMidiTimers,
     watches, saves, settingsInit, songList, optimizerCall, stopDone >>

\* C4: a start request that fails one of its three checks (no song, no
\* selected in-window note-on event, no event with a binding) changes
\* nothing: no flag, counter, timer or button, no countdown, no backend call.
C4_FailedStartChangesNothing ==
  [][lastError' \in {"noFile", "noValid", "noKey"} => UNCHANGED stateVars]_vars

\* C4 witness: a start request has just failed for want of a binding, with a
\* song selected.
C4_Witness ==
  /\ lastError = "noKey"
  /\ selectedMidiFile # NoFile
  /\ ~isPlaying /\ countdownSeconds = 0 /\ nStarts = 0

\* C7: stop_playback is invoked only in a state where isPlaying is true, and
\* a start request cancelled in its countdown never invokes start_playback.
C7_StopInvokedOnlyWhilePlaying ==
  /\ [][(\/ stopsInFlight' > stopsInFlight
         \/ \E w \in WatchIds : /\ watches'[w].pc = "stopBackend"
                                /\ watches[w].pc # "stopBackend")
          => isPlaying]_vars
  /\ [](\A i \in StartIds : starts[i].pc = "cancelled" => starts[i].calls = 0)

\* C7 witness: a stop was issued during a countdown, the request was
\* cancelled, and no stop_playback call is pending.
C7_Witness ==
  \E i \in StartIds :
    /\ starts[i].pc = "cancelled" /\ starts[i].stopped
    /\ ~isPlaying /\ stopsInFlight = 0

\* The state a completed stopPlayback call leaves.
idleAfterStop ==
  /\ ~isPlaying /\ playbackRemainingTime = 0 /\ playbackTimer = 0
  /\ idleButtons

\* C8: on entry to Playing the remaining-time counter holds ceil(max end
\* time) of the events that were eligible when the request was made, and,
\* the ticks and the stop_playback call being fair, every Playing session
\* leads to the state that a stop leaves.
C8_PlayingSessionEnds ==
  /\ [][\A i \in StartIds :
          (starts[i].pc = "invoking" /\ starts'[i].pc = "playing") =>
            playbackRemainingTime' = starts[i].remaining]_vars
  /\ (isPlaying ~> idleAfterStop)

\* The termination part of C8 alone.
PlayingLeadsToIdle == isPlaying ~> idleAfterStop


\* ------------------------------------------------- the dispatch plan
\* The positions of the loaded event list that hold a note-on event of a
\* selected track with a note inside the current window.
eligible ==
  { k \in 1..Len(midiEvents) :
      /\ midiEvents[k].type = "note_on"
      /\ \E j \in 1..Len(tracks) :
           tracks[j].id = midiEvents[k].track /\ tracks[j].selected
      /\ currentMinNote <= midiEvents[k].note
      /\ midiEvents[k].note <= currentMaxNote }

\* s is the list of the events at the positions P of the loaded list, in
\* the order of the list.
isSublistAt(s, P) ==
  /\ Len(s) = Cardinality(P)
  /\ \A n \in 1..Len(s) :
       \E k \in P : /\ s[n] = midiEvents[k]
                    /\ Cardinality({j \in P : j < k}) = n - 1

\* A start request passed its checks in this step.
startAccepted == nStarts' = nStarts + 1

\* C11: the events a start request takes as eligible are exactly the
\* note-on events of selected tracks whose note lies in the window
\* [currentMinNote, currentMaxNote]; events outside the window are dropped
\* and the request is not refused for them while an eligible event remains.
C11_EligibleEvents ==
  [][ /\ startAccepted => isSublistAt(starts'[nStarts'].validEvents, eligible)
      /\ lastError' = "noValid" => eligible = {}
      /\ eligible = {} => ~startAccepted ]_vars

\* C11: a request was accepted for a list with the notes 40, 60 and 90 under
\* the window [48, 83], and exactly the event with note 60 was eligible.
C11_Witness ==
  /\ nStarts = 1
  /\ currentMinNote = 48 /\ currentMaxNote = 83
  /\ Len(midiEvents) = 3
  /\ {midiEvents[k].note : k \in 1..3} = {40, 60, 90}
  /\ \A k \in 1..Len(tracks) : tracks[k].selected
  /\ Len(starts[1].validEvents) = 1
  /\ starts[1].validEvents[1].note = 60

\* The eligible positions whose note has a key in the table.
bindable == { k \in eligible : midiEvents[k].note \in DOMAIN NOTE_TO_KEY }

\* The entry of the plan for the event e.
planEntry(e) ==
  [time |-> e.time, key |-> NOTE_TO_KEY[e.note],
   duration |-> IF e.duration = 0 THEN DefaultDuration ELSE e.duration]

\* C12: the plan of an accepted start request holds, in the order of the
\* eligible events, one entry {time, key, duration} for each eligible event
\* whose note has a key (duration 0.1 s when the event has none); events
\* without a key are dropped, the request is refused only when no entry is
\* left, and the plan is what start_playback receives.
C12_PlanOfBoundEvents ==
  [][ /\ startAccepted =>
           LET plan == starts'[nStarts'].keyEvents
           IN  /\ Len(plan) = Cardinality(bindable)
               /\ \A n \in 1..Len(plan) :
                    \E k \in bindable :
                      /\ plan[n] = planEntry(midiEvents[k])
                      /\ Cardinality({j \in bindable : j < k}) = n - 1
      /\ lastError' \in {"noValid", "noKey"} => bindable = {}
      /\ bindable = {} => ~startAccepted
      /\ \A i \in StartIds :
           starts'[i].calls > starts[i].calls =>
             starts'[i].sent = starts[i].keyEvents ]_vars

\* C12: start_playback received a plan of two entries, the first with the
\* default duration, built from three eligible events of which one has no key.
C12_Witness ==
  /\ starts[1].calls = 1
  /\ Len(starts[1].validEvents) = 3
  /\ Len(starts[1].sent) = 2
  /\ starts[1].sent[1] = [time |-> 0, key |-> "a", duration |-> DefaultDuration]
  /\ starts[1].sent[2].key = "s"

\* C13: the plan start_playback receives is in non-decreasing order of time.
C13_PlanTimeOrdered ==
  \A i \in StartIds :
    \A m, n \in 1..Len(starts[i].sent) :
      m <= n => starts[i].sent[m].time <= starts[i].sent[n].time

\* --------------------------------------------------- the track analysis
\* The window of the settings, as reanalyzeTrack reads it.
limitMin == orDefault(keySettings.minNote, DefaultMinNote)
limitMax == orDefault(keySettings.maxNote, DefaultMaxNote)

\* The positions of the original list that hold a note-on event of track k.
noteOnsOf(k) ==
  { j \in 1..Len(originalMidiEvents) :
      /\ originalMidiEvents[j].track = tracks[k].id
      /\ originalMidiEvents[j].type = "note_on" }

\* The combined shift of track k, and its original notes shifted by it.
shiftOf(k) == tracks[k].transpose + 12 * tracks[k].octave
shiftedMax(k) == Max({originalMidiEvents[j].note : j \in noteOnsOf(k)}) + shiftOf(k)
shiftedMin(k) == Min({originalMidiEvents[j].note : j \in noteOnsOf(k)}) + shiftOf(k)

\* The tracks with at least one note-on event.
analysedTracks == { k \in 1..Len(tracks) : noteOnsOf(k) # {} }

\* reanalyzeTrack stored an analysis for track k in this step: the analysis
\* changed, or the timer of the track fired.
reanalysed(k) ==
  \/ tracks'[k].analysis # tracks[k].analysis
  \/ k \in reanalysisTimers /\ k \notin reanalysisTimers'

\* No re-analysis is pending: every stored analysis is the last one made.
settled == reanalysisTimers = {}

overLimitFlags(k) ==
  /\ tracks[k].analysis.is_max_over_limit
       <=> (shiftedMax(k) > limitMax \/ shiftedMax(k) < limitMin)
  /\ tracks[k].analysis.is_min_over_limit
       <=> (shiftedMin(k) < limitMin \/ shiftedMin(k) > limitMax)

\* C14: with D = transpose + 12 * octave, a re-analysis sets
\* is_max_over_limit exactly when max(notes) + D is above the window or
\* below it, and is_min_over_limit exactly when min(notes) + D is below the
\* window or above it.
C14_OverLimitFlags ==
  [][ \A k \in analysedTracks : reanalysed(k) => overLimitFlags(k)' ]_vars

\* C14: a transposed track whose highest note lies below the window has
\* is_max_over_limit set.
C14_Witness ==
  /\ settled
  /\ tracks[1].transpose # 0
  /\ limitMin <= limitMax
  /\ 1 \in analysedTracks
  /\ shiftedMax(1) < limitMin
  /\ tracks[1].analysis.is_max_over_limit

overLimitCounts(k) ==
  /\ tracks[k].analysis.upper_over_limit =
       Cardinality({ j \in noteOnsOf(k) :
                       originalMidiEvents[j].note + shiftOf(k) > limitMax })
  /\ tracks[k].analysis.lower_over_limit =
       Cardinality({ j \in noteOnsOf(k) :
                       originalMidiEvents[j].note + shiftOf(k) < limitMin })

\* C15: a re-analysis sets upper_over_limit to the number of note-on events
\* of the track whose shifted note is above the window and lower_over_limit
\* to the number of those below it, a note counting once for each event
\* that has it.
C15_OverLimitCounts ==
  [][ \A k \in analysedTracks : reanalysed(k) => overLimitCounts(k)' ]_vars

\* C15: a transposed track with the same note twice, both above the window,
\* has upper_over_limit 2.
C15_Witness ==
  /\ settled
  /\ tracks[1].transpose # 0
  /\ Cardinality(noteOnsOf(1)) = 2
  /\ Cardinality({originalMidiEvents[j].note : j \in noteOnsOf(1)}) = 1
  /\ tracks[1].analysis.upper_over_limit = 2

\* The settings optimizeTransposeSuggestion chooses from, and the score of
\* one (doubled).
candidates(diff, currentTranspose, currentOctave) ==
  { << currentTranspose + diff - 12 * shift, currentOctave + shift >> :
      shift \in -2..2 }

candidateScore(cand) ==
  2 * (Abs(cand[1]) + Abs(cand[2]))
    + (IF Abs(cand[1]) \in 5..7 THEN 1 ELSE 0)

isLowestScore(cand, diff, currentTranspose, currentOctave) ==
  /\ cand \in candidates(diff, currentTranspose, currentOctave)
  /\ \A other \in candidates(diff, currentTranspose, currentOctave) :
       candidateScore(cand) <= candidateScore(other)

\* The suggestion stored for an extreme of track k, << transpose, octave >>.
storedMax(k) ==
  << tracks[k].analysis.suggested_max_transpose[1],
     tracks[k].analysis.suggested_max_octave[1] >>
storedMin(k) ==
  << tracks[k].analysis.suggested_min_transpose[1],
     tracks[k].analysis.suggested_min_octave[1] >>

hasMax(k) ==
  /\ tracks[k].analysis.suggested_max_transpose # Null
  /\ tracks[k].analysis.suggested_max_octave # Null
hasMin(k) ==
  /\ tracks[k].analysis.suggested_min_transpose # Null
  /\ tracks[k].analysis.suggested_min_octave # Null

lowestScoreStored(k) ==
  /\ hasMax(k) =>
       isLowestScore(storedMax(k), limitMax - shiftedMax(k),
                     tracks[k].transpose, tracks[k].octave)
  /\ hasMin(k) =>
       isLowestScore(storedMin(k), limitMin - shiftedMin(k),
                     tracks[k].transpose, tracks[k].octave)

\* C16: a suggestion a re-analysis stores is a candidate
\* (transpose + diff - 12 s, octave + s), s in [-2, 2], of the lowest score
\* |transpose| + |octave| (+ 0.5 when 5 <= |transpose| <= 7) among the five;
\* optimize(8, 0, 0) is (-4, 1).
C16_LowestScoreCandidate ==
  [][ /\ optimizeTransposeSuggestion(8, 0, 0) = << -4, 1 >>
      /\ \A k \in analysedTracks : reanalysed(k) => lowestScoreStored(k)' ]_vars

\* C16: the track with lowest note 40 transposed by 1 under the window
\* [48, 83] (diff 7) has the suggestion (-4, 1) for its lowest note.
C16_Witness ==
  /\ settled
  /\ limitMin = 48
  /\ tracks[1].transpose = 1 /\ tracks[1].octave = 0
  /\ 1 \in analysedTracks
  /\ shiftedMin(1) = 41
  /\ hasMin(1) /\ storedMin(1) = << -4, 1 >>

withinTwoOctaves(k) ==
  /\ tracks[k].analysis.is_max_over_limit =>
       hasMax(k) /\ storedMax(k)[2] - tracks[k].octave \in -2..2
  /\ tracks[k].analysis.is_min_over_limit =>
       hasMin(k) /\ storedMin(k)[2] - tracks[k].octave \in -2..2

\* C17: whenever a re-analysis finds an extreme of a track over the limit
\* the optimizer returns a setting (not null), and its octave differs from
\* the octave of the track by a value in [-2, 2].
C17_SuggestionWithinTwoOctaves ==
  [][ \A k \in analysedTracks : reanalysed(k) => withinTwoOctaves(k)' ]_vars

\* C17: a transposed track whose lowest note is over the limit, with a
\* suggestion two octaves away from the octave of the track.
C17_Witness ==
  /\ settled
  /\ tracks[1].transpose # 0
  /\ tracks[1].analysis.is_min_over_limit
  /\ hasMin(1) /\ Abs(storedMin(1)[2] - tracks[1].octave) = 2

\* applySuggestion(track k, type) ran in this step and applied a suggestion.
applied(k, type) ==
  /\ IF type = "max" THEN hasMax(k) ELSE hasMin(k)
  /\ tracks' = applySuggestion(Cur, k, type).tracks

operated(k) ==
  \/ \E delta \in {-1, 1} :
       tracks' = adjustTranspose(Cur, tracks[k].id, delta).tracks
  \/ \E delta \in {-1, 1} :
       tracks' = adjustOctave(Cur, tracks[k].id, delta).tracks
  \/ tracks' = resetTranspose(Cur, tracks[k].id).tracks
  \/ applied(k, "max") \/ applied(k, "min")

\* The analysis of track is the analysis of its notes in the list `events`
\* under its transpose and octave and the window [lo, hi].
isCurrent(track, events, lo, hi) ==
  track.analysis =
    analysisOf(noteOnNotes(events, track.id), track.transpose, track.octave,
               lo, hi)

storedIsCurrent(k) ==
  isCurrent(tracks[k], originalMidiEvents, limitMin, limitMax)

\* C19: after adjustTranspose, adjustOctave, resetTranspose or
\* applySuggestion on a track with a note-on event, the stored analysis of
\* the track is the analysis of its original notes under its current
\* transpose and octave.
C19_StoredAnalysisIsCurrent ==
  [][ \A k \in analysedTracks :
        \/ isCurrent(tracks'[k], originalMidiEvents', limitMin', limitMax')
        \/ ~operated(k) ]_vars

\* C19: both tracks were moved, the first in transpose and octave.
C19_Witness ==
  /\ tracks[1].transpose = 3 /\ tracks[1].octave = -1
  /\ tracks[2].transpose = 1
  /\ storedIsCurrent(1) /\ storedIsCurrent(2)

nullWithoutFlag(k) ==
  /\ ~tracks[k].analysis.is_max_over_limit =>
       /\ tracks[k].analysis.suggested_max_transpose = Null
       /\ tracks[k].analysis.suggested_max_octave = Null
  /\ ~tracks[k].analysis.is_min_over_limit =>
       /\ tracks[k].analysis.suggested_min_transpose = Null
       /\ tracks[k].analysis.suggested_min_octave = Null

\* C20: after a re-analysis the suggestion for the highest note is null
\* unless is_max_over_limit, and the one for the lowest note is null unless
\* is_min_over_limit.
C20_NoSuggestionWithoutFlag ==
  [][ \A k \in analysedTracks : reanalysed(k) => nullWithoutFlag(k)' ]_vars

\* C20: a transposed track whose lowest note alone is over the limit has a
\* suggestion for the lowest note and none for the highest.
C20_Witness ==
  /\ settled
  /\ tracks[1].transpose # 0
  /\ tracks[1].analysis.is_min_over_limit
  /\ ~tracks[1].analysis.is_max_over_limit
  /\ hasMin(1)
  /\ tracks[1].analysis.suggested_max_transpose = Null
\* --------------------------------------------------- the window change
\* C21: a failed parse_midi call, made by the watcher of the selected song
\* or by handleSettingsSaved, leaves tracks, midiEvents and
\* originalMidiEvents empty.
C21_FailedParseLeavesNothing ==
  lastError \in {"parseFailed", "reparseFailed"} =>
    /\ tracks = << >>
    /\ midiEvents = << >>
    /\ originalMidiEvents = << >>

\* The window save s stored differs from the one it found.
windowChanged(save) ==
  \/ orDefault(save.old.minNote, DefaultMinNote) # save.local.minNote
  \/ orDefault(save.old.maxNote, DefaultMaxNote) # save.local.maxNote

\* handleSettingsSaved ends for a changed window with a song selected.
windowChangeHandled(s) ==
  /\ saves[s].pc = "parse"
  /\ saves'[s].pc = "none"
  /\ windowChanged(saves[s])

\* C22: once the handling of a saved window change has finished with a song
\* selected, every track is the re-parsed one for the new window: transpose
\* 0, octave 0, selected, its analysis the one against the new window.
C22_WindowChangeReplacesTracks ==
  [][\A s \in SaveIds :
       windowChangeHandled(s) =>
         tracks' = ParseTracks(saves[s].filePath,
                               saves[s].local.minNote, saves[s].local.maxNote)]_vars

\* ------------------------------------------------------ the other tracks
\* The timer the watcher set for track k fires in this step.
timerFired(k) == k \in reanalysisTimers /\ k \notin reanalysisTimers'

\* C28: adjustTranspose, adjustOctave, resetTranspose and applySuggestion on
\* a track, and the re-analysis the watcher schedules for it, leave the
\* transpose, octave, selection and analysis of every other track as they
\* were, and schedule no re-analysis of another track.
C28_OtherTracksUnchanged ==
  [][ \A k \in 1..Len(tracks) :
        \/ /\ Len(tracks') = Len(tracks)
           /\ \A j \in 1..Len(tracks) : j # k => tracks'[j] = tracks[j]
           /\ reanalysisTimers' \subseteq reanalysisTimers \cup {k}
        \/ ~(timerFired(k) \/ operated(k)) ]_vars

\* C28: the first track was moved and flagged; the second is as parsed.
C28_Witness ==
  /\ Len(tracks) = 2
  /\ tracks[1].transpose = 3 /\ tracks[1].octave = 1
  /\ tracks[1].analysis.is_max_over_limit
  /\ tracks[2].transpose = 0 /\ tracks[2].octave = 0 /\ tracks[2].selected
  /\ tracks[2].analysis =
       parsedAnalysis(originalMidiEvents, tracks[2].id, limitMin, limitMax)
  /\ settled

\* -------------------------------------------------- the total correction
\* The combined shift a suggestion << transpose, octave >> stands for.
totalShift(suggestion) == suggestion[1] + 12 * suggestion[2]

\* C29: a stored suggestion's transpose + 12 * octave is the track's
\* combined shift plus the distance of the shifted extreme from the window
\* boundary, and applying it puts that extreme of the track exactly on the
\* boundary.
C29_SuggestionReachesBoundary ==
  /\ [](\A k \in analysedTracks :
          /\ hasMax(k) =>
               totalShift(storedMax(k))
                 = shiftOf(k) + (limitMax - shiftedMax(k))
          /\ hasMin(k) =>
               totalShift(storedMin(k))
                 = shiftOf(k) + (limitMin - shiftedMin(k)))
  /\ [][ \A k \in analysedTracks :
           /\ applied(k, "max") =>
                /\ tracks'[k].analysis.max_note = limitMax
                /\ totalShift(<< tracks'[k].transpose, tracks'[k].octave >>)
                     = shiftOf(k) + (limitMax - shiftedMax(k))
           /\ applied(k, "min") =>
                /\ tracks'[k].analysis.min_note = limitMin
                /\ totalShift(<< tracks'[k].transpose, tracks'[k].octave >>)
                     = shiftOf(k) + (limitMin - shiftedMin(k)) ]_vars

\* C29: a suggestion that changed both the transpose and the octave has
\* been applied, and the highest note of the track is the top of the window.
C29_Witness ==
  \E k \in analysedTracks :
    /\ tracks[k].transpose # 0 /\ tracks[k].octave # 0
    /\ shiftedMax(k) = limitMax
    /\ tracks[k].analysis.max_note = limitMax
    /\ ~tracks[k].analysis.is_max_over_limit
    /\ hasMin(k)
    /\ settled

\* ---------------------------------------------- tracks without notes
\* The tracks without a note-on event in the original events.
noNoteTracks == { k \in 1..Len(tracks) : noteOnsOf(k) = {} }

\* C24: for a track without a note-on event in the original events, a
\* re-analysis (by a transpose or octave button, the reset link or a timer
\* of the watcher) reports no error and leaves the analysis of the track as
\* it was.
C24_NoNotesNoReanalysis ==
  [][ \A k \in noNoteTracks :
        /\ tracks'[k].analysis = tracks[k].analysis
        /\ lastError' = "none" ]_vars

\* C24: the first track has no note-on event, its transpose and octave
\* were moved with the buttons and no re-analysis is pending.
C24_Witness ==
  /\ 1 \in noNoteTracks
  /\ tracks[1].transpose = 2 /\ tracks[1].octave = -1
  /\ tracks[1].analysis = EmptyAnalysis
  /\ settled

\* ---------------------------------------------------------- the preview
\* The note-on events of the loaded song with a note inside the current
\* window, whatever the selection of their track.
inWindowNoteOns ==
  SelectSeq(originalMidiEvents,
            LAMBDA e : /\ e.type = "note_on"
                       /\ e.note >= currentMinNote /\ e.note <= currentMaxNote)

\* The startMidiPlayback call m made by startPreview hands its notes to the
\* synth in this step.
previewScheduled(m) ==
  /\ midis[m].pc # "none" /\ midis[m].preview
  /\ midis'[m].pc = "none"
  /\ toneSynth' /\ midiPlaybackTimer'

\* C25: a preview plays exactly the note-on events with a note inside the
\* current window, of selected and of deselected tracks alike.
C25_PreviewPlaysWindow ==
  [][\A m \in MidiIds :
       previewScheduled(m) => scheduledNotes' = inWindowNoteOns']_vars

\* --------------------------------------------- the cancelled countdown
\* A stopPlayback call cancels the countdown of start request i in this step.
countdownCancelled(i) ==
  starts[i].pc = "countdown" /\ starts'[i].pc = "cancelled"

\* The Idle state of the simulated-key playback.
exactlyIdle ==
  /\ ~isPlaying /\ countdownSeconds = 0 /\ playbackRemainingTime = 0
  /\ cancelCountdownFunc = 0 /\ countdownInterval = 0 /\ playbackTimer = 0
  /\ noIntervalLive
  /\ idleButtons

\* C26: a stop during the countdown reports no error and leaves exactly the
\* Idle state (no counter, flag, cancel handle or interval, the buttons
\* enabled as in Idle), and a start request made after it, if not stopped itself, invokes
\* start_playback after three ticks of its own countdown.
C26_CancelledCountdownIsIdle ==
  /\ [][(\E i \in StartIds : countdownCancelled(i))
          => (exactlyIdle' /\ lastError' = "none")]_vars
  /\ [](\A i \in StartIds :
          (/\ \E j \in 1..(i - 1) : starts[j].pc = "cancelled"
           /\ starts[i].calls > 0 /\ ~starts[i].stopped)
            => starts[i].ticks = CountdownStart)

\* ------------------------------------------------ settings initialization
\* The file load of doInitialize is over.
loadFinished ==
  /\ settingsInit.loads > 0
  /\ \A n \in InitCallIds : settingsInit.loadPc[n] \in {"none", "done"}

\* C27: for any interleaving of initialize() calls the file load of
\* doInitialize runs at most once, a call resolves only when that load has
\* finished, and a call made after the completion returns at once without
\* another load.
C27_InitializeOnce ==
  /\ [](settingsInit.loads <= 1 /\ settingsInit.runs <= 1)
  /\ [](\A k \in InitCallIds :
          settingsInit.calls[k].pc = "done" => loadFinished)
  /\ [][\A k \in InitCallIds :
          (/\ settingsInit.isInitialized
           /\ settingsInit.calls[k].pc = "none"
           /\ settingsInit'.calls[k].pc # "none")
            => /\ settingsInit'.calls[k].pc = "done"
               /\ settingsInit'.loads = settingsInit.loads]_vars

\* C27: a second call came while the load was pending and a third after
\* the completion; all three have resolved and the file was read once.
C27_Witness ==
  /\ settingsInit.loads = 1 /\ settingsInit.fromFile
  /\ settingsInit.isInitialized
  /\ \E k1, k2, k3 \in InitCallIds :
       /\ settingsInit.calls[k1] = [pc |-> "done", promise |-> 1]
       /\ k2 # k1 /\ settingsInit.calls[k2] = [pc |-> "done", promise |-> 1]
       /\ settingsInit.calls[k3] = [pc |-> "done", promise |-> 0]

\* --------------------------------------------------------- tie-breaking
\* The candidate of the call for the k-th octave shift of the loop, and its
\* score (times two), all in halves.
callCandidate(k) ==
  << optimizerCall.current_transpose + optimizerCall.diff
       - 24 * OctaveShifts[k],
     optimizerCall.current_octave + 2 * OctaveShifts[k] >>

callScore(k) ==
  Abs(callCandidate(k)[1]) + Abs(callCandidate(k)[2])
    + (IF Abs(callCandidate(k)[1]) \in 10..14 THEN 1 ELSE 0)

\* The positions in the loop of the candidates of lowest score.
lowestScored ==
  { k \in 1..Len(OctaveShifts) :
      \A j \in 1..Len(OctaveShifts) : callScore(k) <= callScore(j) }

\* C30: the optimizer returns the candidate of lowest score that the loop
\* enumerates first (octave shift -2 before -1 before 0 before 1 before 2),
\* also when several candidates share the lowest score; the result is
\* determined by (diff, currentTranspose, currentOctave).
C30_FirstOfLowestScore ==
  optimizerCall.pc = "returned"
    => optimizerCall.result = callCandidate(Min(lowestScored))

\* C30: a call has returned for which two candidates share the lowest
\* score.
C30_Witness ==
  /\ optimizerCall.pc = "returned"
  /\ Cardinality(lowestScored) >= 2
  /\ optimizerCall.result = callCandidate(Min(lowestScored))
  /\ optimizerCall.result # callCandidate(Max(lowestScored))

\* --------------------------------------------- transposes and the events
\* The transpose or the octave of a track changes in this step.
shiftChanged ==
  \E k \in 1..Len(tracks) :
    \/ Len(tracks') # Len(tracks)
    \/ tracks'[k].transpose # tracks[k].transpose
    \/ tracks'[k].octave # tracks[k].octave

previewEnded == isPreviewing /\ ~isPreviewing'

\* C32: when a preview has ended, midiEvents holds the events it held
\* before the preview, the full list parse_midi returned for the song.
C32_PreviewLeavesEvents ==
  [][previewEnded => midiEvents' = originalMidiEvents']_vars

\* C33: whenever isPreviewing is set the audio session is live
\* (isPlayingMidi), and a failure of the audio start inside
\* startMidiPlayback leaves isPreviewing false and the buttons as in Idle.
C33_PreviewingImpliesAudio ==
  /\ isPreviewing => isPlayingMidi
  /\ lastError = "midiFailed" => (~isPreviewing /\ idleButtons)

\* ------------------------------------------------------ the stop control
\* C34: while a countdown is pending or isPlaying is set, the stop button is
\* enabled and the preview and audio-preview buttons are disabled.
C34_StopAvailable ==
  (countdownSeconds > 0 \/ isPlaying)
    => /\ isStopButtonEnabled
       /\ ~isPreviewButtonEnabled /\ ~isMidiPlaybackButtonEnabled

\* -------------------------------------------------- the song dispatched
\* Every entry of the plan was built from an event of song f.
planOfSong(plan, f) ==
  /\ f # NoFile
  /\ \A n \in 1..Len(plan) :
       \E k \in 1..Len(ParseEvents(f)) :
         /\ ParseEvents(f)[k].note \in DOMAIN NOTE_TO_KEY
         /\ plan[n] = planEntry(ParseEvents(f)[k])

\* C35: whenever start_playback is invoked, every entry of the plan it
\* receives was built from the events of the song selected at that moment.
C35_PlanOfSelectedSong ==
  [][ \A i \in StartIds :
        starts'[i].calls > starts[i].calls
          => planOfSong(starts'[i].sent, selectedMidiFile') ]_vars

\* ------------------------------------------------------- the two windows
\* No save of the settings dialog is between its update of the settings and
\* the settingsSaved event.
noSaveInProgress == \A s \in SaveIds : saves[s].pc # "write"

\* C36: while no settings save is in progress, the window that filters the
\* events for dispatch (currentMinNote, currentMaxNote) is the window
\* reanalyzeTrack reads from the settings.
C36_OneWindow ==
  noSaveInProgress
    => (currentMinNote = limitMin /\ currentMaxNote = limitMax)

\* ------------------------------------------------- the audio session ends
\* startMidiPlayback call m creates its interval in this step.
midiScheduled(m) ==
  /\ midis[m].pc # "none" /\ midis'[m].pc = "none"
  /\ midiPlaybackTimer'

\* What stopMidiPlayback is to leave: no audio session, no preview, no
\* remaining time, no interval of startMidiPlayback live, the buttons as in
\* Idle.
audioIdle ==
  /\ ~isPlayingMidi /\ ~isPreviewing /\ midiRemainingTime = 0
  /\ ~midiPlaybackTimer /\ leakedMidiTimers = 0
  /\ idleButtons

\* C37: startMidiPlayback sets midiRemainingTime to the largest end time of
\* the events it plays, rounded up to seconds; a tick lowers it by one; the
\* step that takes it to zero leaves no audio session, no preview, no live
\* interval and the buttons as in Idle; and every session whose interval
\* was created ends that way.
C37_AudioSessionEnds ==
  /\ [][ /\ \A m \in MidiIds :
             midiScheduled(m)
               => midiRemainingTime' = Ceil(maxEndTime(midiEvents'))
         /\ (MidiTick \/ LeakedMidiTick)
              => \/ midiRemainingTime' = midiRemainingTime - 1
                 \/ midiRemainingTime - 1 <= 0 /\ audioIdle'
       ]_vars
  /\ (midiPlaybackTimer ~> audioIdle)

\* ------------------------------------------------- the select-all flag
\* C38 as stated: allTracksSelected is true exactly when every track in the
\* list has selected = true.
C38_FlagMirrorsSelection == allTracksSelected <=> everySelected(tracks)

\* C38: while the list holds a track, allTracksSelected is true exactly when
\* every track has selected = true, and a load by the watcher that leaves
\* tracks puts the flag and every track at true.
C38_FlagMirrorsTracks ==
  /\ [](Len(tracks) > 0 => (allTracksSelected <=> everySelected(tracks)))
  /\ [][ /\ (\E w \in WatchIds : watches[w].pc = "parse" /\ watches'[w].pc = "none")
              /\ Len(tracks') > 0
              => allTracksSelected' /\ everySelected(tracks') ]_vars

\* C38 witness: song 1 is loaded, one of its two tracks has been unticked
\* and the flag is false.
C38_Witness ==
  /\ selectedMidiFile = 1 /\ Len(tracks) = 2
  /\ tracks[1].selected /\ ~tracks[2].selected
  /\ ~allTracksSelected

\* ------------------------------------------------------ song navigation
\* The song after position i of a list of n songs, and the song before it.
successorAt(i, n) == (i % n) + 1
predecessorAt(i, n) == ((i + n - 2) % n) + 1

\* What the two operations are to do with the song list l.
navigationWraps(l) ==
  LET files == l.midiFiles
      n == Len(files)
      i == indexOf(files, l.selectedFile)
      next == selectNextSong(l)
      prev == selectPrevSong(l)
  IN  /\ n > 0 =>
           /\ next = [l EXCEPT !.selectedFile =
                        files[IF i = 0 THEN 1 ELSE successorAt(i, n)]]
           /\ prev = [l EXCEPT !.selectedFile =
                        files[IF i = 0 THEN n ELSE predecessorAt(i, n)]]
      /\ n = 0 => (next = l /\ prev = l)
      /\ i > 0 => selectPrevSong(next) = l

\* C39: with songs in the list, selectNextSong selects the successor of the
\* current song, the first song from the last one or from no selection in
\* the list, and selectPrevSong selects the predecessor, the last song from
\* the first one or from no selection in the list; with an empty list
\* neither changes anything; and for a current song of the list
\* selectPrevSong after selectNextSong selects it again.  The steps of the
\* two operations change the selection to those songs and nothing else.
C39_NavigationWraps ==
  /\ [](navigationWraps(songList))
  /\ [][ /\ SelectNextSong => songList' = selectNextSong(songList)
         /\ SelectPrevSong => songList' = selectPrevSong(songList) ]_vars

\* C39 witness: of three or more songs the last one is selected, which
\* selectPrevSong reaches from no selection and selectNextSong by steps.
C39_Witness ==
  /\ Len(songList.midiFiles) >= 3
  /\ songList.selectedFile = songList.midiFiles[Len(songList.midiFiles)]

\* ------------------------------------------------------------ the timers
\* The controller is Idle: no session, countdown, preview or audio preview
\* is active or being started or stopped.
controllerIdle ==
  /\ ~isPlaying /\ countdownSeconds = 0 /\ cancelCountdownFunc = 0
  /\ stopsInFlight = 0
  /\ \A i \in StartIds : starts[i].pc \notin {"countdown", "invoking"}
  /\ ~midiActive(Cur)
  /\ \A m \in MidiIds : midis[m].pc = "none"

\* C23: at most one countdown interval and at most one remaining-time
\* ticker of each kind is live, each live interval is the one its handle
\* (countdownInterval, playbackTimer, midiPlaybackTimer) refers to, and no
\* interval is live once the controller is Idle again.
C23_OneTimerOfEachKind ==
  /\ Cardinality({i \in StartIds : starts[i].cdLive}) <= 1
  /\ Cardinality({i \in StartIds : starts[i].tkLive}) <= 1
  /\ \A i \in StartIds : starts[i].cdLive => countdownInterval = i
  /\ \A i \in StartIds : starts[i].tkLive => playbackTimer = i
  /\ leakedMidiTimers = 0
  /\ controllerIdle => (noIntervalLive /\ ~midiPlaybackTimer)

====
